---- MODULE Spec2Model ----
(***************************************************************************)
(* Batch analysis pipeline of ChunkChop (electron/services/AIService.ts,   *)
(* middleware/RetryMiddleware.ts, utils/ErrorUtils.ts, utils/llmBatching,  *)
(* utils/ProcessUtils.ts, middleware/*Provider.ts).                        *)
(*                                                                         *)
(* The service runs on the single JavaScript thread of the Electron main   *)
(* process.  One action of the model is one macrotask: the code that runs  *)
(* from an entry (a call of an exported function, the settlement of a      *)
(* network call, the expiry of a backoff timer) up to the next point at    *)
(* which the run waits for the network or for a timer.  Promise            *)
(* continuations between two such points are microtasks and run without    *)
(* any other entry in between.                                             *)
(***************************************************************************)
EXTENDS Integers, Sequences, FiniteSets, TLC

VARIABLES
    genAI,          \* GeminiProvider.genAI !== null
    apiKey,         \* OpenRouterProvider.apiKey !== null
    webContents,    \* module variable webContents of AIService ("null" or a handle)
    isProcessing,   \* module variable isProcessing of AIService
    runs,           \* the calls of analyze*Batch that went past the guards:
                    \* the pending ones and the settled ones not yet replaced
    lastSync,       \* how the call made in the last step settled, when that step was a
                    \* call of analyze*Batch that settled before its first await
    cache,          \* table process_analysis
    devCache,       \* table devmode_analysis
    rt,             \* one free-standing invocation of withRetry
    pure,           \* one free-standing application of a pure function
    main            \* module state of main.ts: the window, the poll timer, the
                    \* calls of fetchProcesses in flight, the last processes-update

vars == <<genAI, apiKey, webContents, isProcessing, runs, lastSync, cache, devCache, rt, pure, main>>

svcVars == <<genAI, apiKey, webContents, isProcessing, runs, lastSync, cache, devCache>>

----------------------------------------------------------------------------
(* Bounds of the model *)

\* withRetry is explored for maxRetries in 0..MaxRetriesBound
MaxRetriesBound == 4

\* deduplicateProcesses is explored for snapshots of up to MaxProcesses entries
MaxProcesses == 3

\* createProcessBatches is explored for snapshots of up to MaxItems entries
MaxItems == 66

\* the parsers are explored for replies whose JSON part has up to MaxTokens tokens
MaxTokens == 5

\* at most MaxFetches calls of fetchProcesses are in flight
MaxFetches == 2

\* kill-process is requested for the pids 0..MaxPid
MaxPid == 6

----------------------------------------------------------------------------
(* Program constants *)

TARGET_BATCH_SIZE == 32

DefaultMaxRetries == 3

DefaultBaseDelay == 1000

\* maxRetries passed by analyzeProcessChunk / analyzeDevModeChunk
ChunkMaxRetries == 3

----------------------------------------------------------------------------
(* Errors.  A thrown value is an Error object with a message; a message is  *)
(* a sequence of text fragments, and String.includes(s) on it is modelled  *)
(* as "s is one of the fragments".                                          *)

NoError == [type |-> "null", message |-> <<>>]

Err(message) == [type |-> "Error", message |-> message]

Includes(message, s) == \E k \in 1..Len(message) : message[k] = s

Contains(message, part) ==
    \E k \in 0..(Len(message) - Len(part)) :
        \A j \in 1..Len(part) : message[k + j] = part[j]

getErrorMessage(error) ==
    IF error.type = "string" THEN error.message
    ELSE IF error.message # <<>> THEN error.message
    ELSE IF error.type = "Error" THEN <<"Error">>
    ELSE <<"Unknown error">>

isRetryableErrorAlways(error) == TRUE

isRetryableError(error) ==
    LET errorMessage == getErrorMessage(error) IN
    \/ Includes(errorMessage, "503") \/ Includes(errorMessage, "Service Unavailable")
    \/ Includes(errorMessage, "429") \/ Includes(errorMessage, "Too Many Requests")
    \/ Includes(errorMessage, "overloaded")
    \/ Includes(errorMessage, "ECONNRESET")
    \/ Includes(errorMessage, "ETIMEDOUT")
    \/ Includes(errorMessage, "ENOTFOUND")
    \/ Includes(errorMessage, "fetch failed")

\* Errors OpenRouterProvider.analyze / getRawCompletion can reject with
HttpRefused(status, statusText, body) ==
    Err(<<"OpenRouter API refused: ", status, statusText, " - ", body>>)

OpenRouterErrors ==
    { HttpRefused("503", "Service Unavailable", ""),
      HttpRefused("400", "Bad Request", "") }

GeminiNotInitialized == Err(<<"Gemini API not initialized">>)

OpenRouterKeyNotSet == Err(<<"OpenRouter API key not set">>)

\* Errors GeminiProvider.analyze can reject with once it is initialized
GeminiErrors ==
    { Err(<<"[GoogleGenerativeAI Error]: ", "429", "Too Many Requests">>),
      Err(<<"Failed to parse JSON response from Gemini">>) }

----------------------------------------------------------------------------
(* withRetry (RetryMiddleware.ts).  The record is the frame of one          *)
(* invocation: its options, its locals and where it stands.                 *)

RECURSIVE Pow2(_)
Pow2(n) == IF n = 0 THEN 1 ELSE 2 * Pow2(n - 1)

\* Math.pow(3, attempt)
RECURSIVE Pow3(_)
Pow3(n) == IF n = 0 THEN 1 ELSE 3 * Pow3(n - 1)

isLastAttempt(attempt, maxRetries) == attempt = maxRetries

LoopTestStrict(attempt, maxRetries) == attempt < maxRetries

\* the test of `for (let attempt = 0; attempt <= maxRetries; attempt++)`
LoopTest(attempt, maxRetries) == attempt <= maxRetries

\* withRetry is entered with attempt = 0 and calls operation() at once
WithRetryStart(maxRetries, baseDelay) ==
    [ maxRetries  |-> maxRetries,
      baseDelay   |-> baseDelay,
      attempt     |-> 0,
      lastError   |-> NoError,
      state       |-> IF LoopTest(0, maxRetries) THEN "operation" ELSE "threw",
      invocations |-> IF LoopTest(0, maxRetries) THEN 1 ELSE 0,
      onRetry     |-> <<>>,
      sleeps      |-> <<>>,
      thrown      |-> NoError ]

\* `return await operation()` when the operation resolves
WithRetryResolved(w) == [w EXCEPT !.state = "returned"]

WithRetryRejectedAnyError(w, error) ==
    IF isLastAttempt(w.attempt, w.maxRetries)
    THEN [w EXCEPT !.lastError = error, !.state = "threw", !.thrown = error]
    ELSE [w EXCEPT !.lastError = error,
                   !.onRetry = Append(@, [attempt |-> w.attempt + 1, error |-> error]),
                   !.sleeps = Append(@, w.baseDelay * Pow3(w.attempt)),
                   !.state = "sleep"]

\* the catch block of the loop
WithRetryRejected(w, error) ==
    IF ~isRetryableError(error) \/ isLastAttempt(w.attempt, w.maxRetries)
    THEN [w EXCEPT !.lastError = error, !.state = "threw", !.thrown = error]
    ELSE [w EXCEPT !.lastError = error,
                   !.onRetry = Append(@, [attempt |-> w.attempt + 1, error |-> error]),
                   !.sleeps = Append(@, w.baseDelay * Pow3(w.attempt)),
                   !.state = "sleep"]

WithRetryAwakeSameAttempt(w) ==
    [w EXCEPT !.state = "operation", !.invocations = @ + 1]

\* sleep(delay) is over: attempt++, the loop test, and operation() again or
\* `throw lastError` after the loop
WithRetryAwake(w) ==
    IF LoopTest(w.attempt + 1, w.maxRetries)
    THEN [w EXCEPT !.attempt = w.attempt + 1, !.state = "operation",
                   !.invocations = @ + 1]
    ELSE [w EXCEPT !.attempt = w.attempt + 1, !.state = "threw",
                   !.thrown = w.lastError]

----------------------------------------------------------------------------
(* Processes.  A name is <<id, upper>>: the text of the name and whether   *)
(* it is written in upper case; toLowerCase clears the second component.   *)

toLowerCase(name) == <<name[1], FALSE>>

ProcessInfo(name, cpu) == [name |-> name, cpu |-> cpu, mem |-> 10 * cpu]

\* "chrome.exe" and "CHROME.EXE", with different figures
LowerCased == ProcessInfo(<<1, FALSE>>, 1)

UpperCased == ProcessInfo(<<1, TRUE>>, 2)

\* a snapshot of distinct names that needs three batches
LongInput == [k \in 1..(2 * TARGET_BATCH_SIZE + 1) |-> ProcessInfo(<<k, FALSE>>, 0)]

\* the snapshots callers pass
ProcessesInputs == { <<>>, <<LowerCased, UpperCased>>, LongInput }

DevModeInputs == { <<>>, <<UpperCased, LowerCased>> }

deduplicateKeepingLast(processes) ==
    LET normalizedName(k) == toLowerCase(processes[k].name)
        kept == { k \in 1..Len(processes) :
                    \A j \in (k + 1)..Len(processes) : normalizedName(j) # normalizedName(k) }
        rank(k) == Cardinality({ j \in kept : j <= k })
    IN [n \in 1..Cardinality(kept) |-> processes[CHOOSE k \in kept : rank(k) = n]]

deduplicateNewestFirst(processes) ==
    LET normalizedName(k) == toLowerCase(processes[k].name)
        kept == { k \in 1..Len(processes) :
                    \A j \in 1..(k - 1) : normalizedName(j) # normalizedName(k) }
        rank(k) == Cardinality({ j \in kept : j >= k })
    IN [n \in 1..Cardinality(kept) |-> processes[CHOOSE k \in kept : rank(k) = n]]

deduplicateExactName(processes) ==
    LET kept == { k \in 1..Len(processes) :
                    \A j \in 1..(k - 1) : processes[j].name # processes[k].name }
        rank(k) == Cardinality({ j \in kept : j <= k })
    IN [n \in 1..Cardinality(kept) |-> processes[CHOOSE k \in kept : rank(k) = n]]

\* deduplicateProcesses: entry k is put into the Map `seen` when no earlier
\* entry has its lower-cased name; Array.from(seen.values()) lists the entries
\* in the order they were put in
deduplicateProcesses(processes) ==
    LET normalizedName(k) == toLowerCase(processes[k].name)
        kept == { k \in 1..Len(processes) :
                    \A j \in 1..(k - 1) : normalizedName(j) # normalizedName(k) }
        rank(k) == Cardinality({ j \in kept : j <= k })
    IN [n \in 1..Cardinality(kept) |-> processes[CHOOSE k \in kept : rank(k) = n]]

\* Math.ceil(n / d) for n >= 0, d > 0
Ceil(n, d) == (n + d - 1) \div d

createProcessBatchesContiguous(processes) ==
    LET n == Len(processes)
        numBatches == Ceil(n, TARGET_BATCH_SIZE)
        size(b) == Cardinality({ x \in 0..(n - 1) : x % numBatches = b - 1 })
        start(b) == Cardinality({ x \in 0..(n - 1) : x % numBatches < b - 1 })
    IN [b \in 1..numBatches |-> SubSeq(processes, start(b) + 1, start(b) + size(b))]

createProcessBatchesFloor(processes) ==
    IF Len(processes) = 0 THEN <<>>
    ELSE LET n == Len(processes)
             numBatches == IF n < TARGET_BATCH_SIZE THEN 1 ELSE n \div TARGET_BATCH_SIZE
             size(b) == Cardinality({ x \in 0..(n - 1) : x % numBatches = b - 1 })
         IN [b \in 1..numBatches |->
                [j \in 1..size(b) |-> processes[(b - 1) + (j - 1) * numBatches + 1]]]

createProcessBatchesSliced(processes) ==
    [b \in 1..Ceil(Len(processes), TARGET_BATCH_SIZE) |->
        SubSeq(processes, (b - 1) * TARGET_BATCH_SIZE + 1,
               IF b * TARGET_BATCH_SIZE < Len(processes) THEN b * TARGET_BATCH_SIZE
               ELSE Len(processes))]

\* createProcessBatches: numBatches groups, entry at 0-based index x goes to
\* group x % numBatches, appended in input order
createProcessBatches(processes) ==
    IF Len(processes) = 0 THEN <<>>
    ELSE LET n == Len(processes)
             numBatches == Ceil(n, TARGET_BATCH_SIZE)
             size(b) == Cardinality({ x \in 0..(n - 1) : x % numBatches = b - 1 })
         IN [b \in 1..numBatches |->
                [j \in 1..size(b) |-> processes[(b - 1) + (j - 1) * numBatches + 1]]]

----------------------------------------------------------------------------
(* The two functions applied to the snapshots callers pass, as tables.     *)

\* what is left of <<LowerCased, UpperCased>> once one of the names is cached
NeedAnalysisInputs == { <<LowerCased>>, <<UpperCased>> }

\* TARGET_BATCH_SIZE + 1 names, each listed twice in a row, in lower and in
\* upper case; the upper-case entry comes first for every second name
PairedInput ==
    [k \in 1..(2 * TARGET_BATCH_SIZE + 2) |->
        LET id == (k + 1) \div 2 IN
        IF (k % 2 = 1) = (id % 2 = 0) THEN ProcessInfo(<<id, TRUE>>, 2)
        ELSE ProcessInfo(<<id, FALSE>>, 1)]

CaseInputs == { PairedInput }

Inputs == ProcessesInputs \cup DevModeInputs \cup NeedAnalysisInputs \cup CaseInputs

Deduplicated == [processes \in Inputs |-> deduplicateProcesses(processes)]

Batches == [processes \in Inputs |-> createProcessBatches(Deduplicated[processes])]

----------------------------------------------------------------------------
(* Provider replies.  What a provider returns is what the model wrote; the *)
(* model explores the replies with one record per submitted process.        *)

Risks == { "Safe" }

DevTypes == { "Normal" }

AnalysisResult(name, level) == [process_name |-> name, level |-> level]

FullReply(processes, level) ==
    [k \in 1..Len(processes) |-> AnalysisResult(processes[k].name, level)]

Replies(fn, processes) ==
    { FullReply(processes, level) :
        level \in (IF fn = "analyzeDevModeBatch" THEN DevTypes ELSE Risks) }

saveAnalysisPlainInsert(table, result) == table \cup { result }

\* saveAnalysis / saveDevModeAnalysis: INSERT OR REPLACE on the primary key
saveAnalysis(table, result) ==
    { row \in table : row.process_name # result.process_name } \cup { result }

\* the sets of process names for which stmt.run throws during one
\* saveBatchAnalysis: none, or the first record's
WriteFailures(results) ==
    IF Len(results) = 0 THEN { {} }
    ELSE { {}, { results[1].process_name } }

RECURSIVE saveBatchFromAborting(_, _, _, _)
saveBatchFromAborting(table, results, k, failing) ==
    IF k > Len(results) \/ results[k].process_name \in failing THEN table
    ELSE saveBatchFromAborting(saveAnalysis(table, results[k]), results, k + 1, failing)

\* saveBatchAnalysis / saveDevModeBatchAnalysis: forEach in order, each
\* record in its own try/catch (a write that throws is logged and skipped)
RECURSIVE saveBatchFrom(_, _, _, _)
saveBatchFrom(table, results, k, failing) ==
    IF k > Len(results) THEN table
    ELSE IF results[k].process_name \in failing
         THEN saveBatchFrom(table, results, k + 1, failing)
         ELSE saveBatchFrom(saveAnalysis(table, results[k]), results, k + 1, failing)

saveBatchAnalysis(table, results, failing) == saveBatchFrom(table, results, 1, failing)

\* the names console.error reports for one saveBatchAnalysis
FailedWrites(results, failing) ==
    { results[k].process_name : k \in 1..Len(results) } \cap failing

----------------------------------------------------------------------------
(* The coordinator and the orchestrator (AIService.ts).                     *)

Ev(channel, tag, a, b, c) == [channel |-> channel, tag |-> tag, a |-> a, b |-> b, c |-> c]

\* webContents.send behind `webContents && !webContents.isDestroyed()`
Send(log, ev) == IF webContents = "wc" THEN Append(log, ev) ELSE log

NotInitializedError == Err(<<"Gemini API not initialized. Please set API key first.">>)

BusyError == Err(<<"Batch analysis already in progress">>)

IsDevMode(fn) == fn = "analyzeDevModeBatch"

SelectedTag(fn, provider) ==
    IF provider = "OpenRouter"
    THEN (IF IsDevMode(fn) THEN "OpenRouter (Dev Mode)" ELSE "OpenRouter")
    ELSE (IF IsDevMode(fn) THEN "Gemini (Dev Mode Fallback)" ELSE "Gemini (Fallback)")

SkippedMarker(fn) == IF IsDevMode(fn) THEN "Skipped" ELSE "Skipped/Not Configured"

CombinedPrefix(fn) ==
    IF IsDevMode(fn) THEN <<"Both AI providers failed in Dev Mode. ", "OpenRouter: ">>
    ELSE <<"Both AI providers failed. ", "OpenRouter: ">>

PrimaryPart(fn, openRouterError) ==
    IF openRouterError # NoError THEN getErrorMessage(openRouterError)
    ELSE <<SkippedMarker(fn)>>

CombinedMessageNoPrimary(fn, openRouterError, geminiError) ==
    CombinedPrefix(fn) \o <<". Gemini: ">> \o getErrorMessage(geminiError)

\* the message of combinedError
CombinedMessage(fn, openRouterError, geminiError) ==
    CombinedPrefix(fn) \o PrimaryPart(fn, openRouterError)
        \o <<". Gemini: ">> \o getErrorMessage(geminiError)

Call(provider, attempt) == [provider |-> provider, attempt |-> attempt, outcome |-> "pending"]

SettleLast(calls, outcome) == [calls EXCEPT ![Len(calls)].outcome = outcome]

NoReply == [provider |-> "none", records |-> <<>>]

\* step 2 of analyze*Chunk: withRetry(() => geminiProvider.analyze(...))
BeginGemini(r) ==
    [r EXCEPT !.stage = "Gemini",
              !.batchEvents = Send(@, Ev("ai-provider-selected", SelectedTag(r.fn, "Gemini"), 0, 0, 0)),
              !.retry = WithRetryStart(ChunkMaxRetries, DefaultBaseDelay),
              !.calls = Append(@, Call("Gemini", 0))]

PrimaryUsableAlways == TRUE

\* openRouterProvider.isInitialized()
PrimaryUsable == apiKey

BeginChunkBothProviders(r) ==
    [r EXCEPT !.openRouterError = NoError, !.batchEvents = <<>>, !.primaryChecked = apiKey,
              !.stage = "OpenRouter",
              !.retry = WithRetryStart(ChunkMaxRetries, DefaultBaseDelay),
              !.calls = <<Call("OpenRouter", 0), Call("Gemini", 0)>>]

\* analyzeProcessChunk / analyzeDevModeChunk up to their first await
BeginChunk(r) ==
    LET fresh == [r EXCEPT !.openRouterError = NoError, !.calls = <<>>, !.batchEvents = <<>>,
                           !.primaryChecked = apiKey] IN
    IF PrimaryUsable
    THEN [fresh EXCEPT
            !.stage = "OpenRouter",
            !.batchEvents = Send(@, Ev("ai-provider-selected", SelectedTag(r.fn, "OpenRouter"), 0, 0, 0)),
            !.retry = WithRetryStart(ChunkMaxRetries, DefaultBaseDelay),
            !.calls = <<Call("OpenRouter", 0)>>]
    ELSE BeginGemini(fresh)

BeginBatchWithoutProgress(r) ==
    LET chunk == r.chunks[r.i] IN
    BeginChunk([r EXCEPT !.events =
        Send(@, Ev("batch-analysis-log", "Processing batch", r.i, Len(r.chunks), Len(chunk)))])

\* one iteration of the loop over chunks, up to `await analyze*Chunk(chunk)`
BeginBatch(r) ==
    LET chunk == r.chunks[r.i] IN
    BeginChunk([r EXCEPT !.events =
        Send(Send(@, Ev("batch-analysis-log", "Processing batch", r.i, Len(r.chunks), Len(chunk))),
             Ev("batch-analysis-progress", "", r.i, Len(r.chunks), Len(chunk)))])

FlagAfterSettleNoFinally(status) == status = "threw"

\* `finally { isProcessing = false; }`
FlagAfterSettle(status) == FALSE

ResultsOfMerged(r, reply) == r.allResults \o reply

\* `return await withRetry(...)`: the chunk's results are the reply
ResultsOf(r, reply) == reply

ChunkReturnedUnsaved(r, reply) ==
    LET r1 == [r EXCEPT !.results = reply, !.allResults = @ \o reply]
    IN [ save |-> <<>>,
         run  |-> IF r.i < Len(r.chunks)
                  THEN BeginBatch([r1 EXCEPT !.i = r.i + 1])
                  ELSE [r1 EXCEPT !.status = "returned",
                                  !.events = Send(@, Ev("batch-analysis-complete", "",
                                                        Len(r1.allResults), 0, 0))] ]

CompletionCountOfLastBatch(r) == Len(r.results)

\* `count: allResults.length`
CompletionCount(r) == Len(r.allResults)

\* the loop body after `await analyze*Chunk(chunk)` returned, and what follows
ChunkReturned(r, reply) ==
    LET results == ResultsOf(r, reply)
        r1 == [r EXCEPT !.results = results, !.allResults = @ \o results]
    IN [ save |-> results,
         run  |-> IF r.i < Len(r.chunks)
                  THEN BeginBatch([r1 EXCEPT !.i = r.i + 1])
                  ELSE [r1 EXCEPT !.status = "returned",
                                  !.events = Send(@, Ev("batch-analysis-complete", "",
                                                        CompletionCount(r1), 0, 0))] ]

ChunkThrewContinues(r, error) ==
    [ save |-> <<>>,
      run  |-> IF r.i < Len(r.chunks) THEN BeginBatch([r EXCEPT !.i = r.i + 1])
               ELSE [r EXCEPT !.status = "threw", !.error = error] ]

\* analyze*Chunk threw: `catch (error) { throw error; }`
ChunkThrew(r, error) ==
    [ save |-> <<>>, run |-> [r EXCEPT !.status = "threw", !.error = error] ]

OnResolvedFallThrough(r, reply) ==
    LET r1 == [r EXCEPT !.retry = WithRetryResolved(@),
                        !.calls = SettleLast(@, "ok"),
                        !.lastReply = [provider |-> r.stage, records |-> reply]]
    IN IF r.stage = "OpenRouter" THEN [save |-> <<>>, run |-> BeginGemini(r1)]
       ELSE ChunkReturned(r1, reply)

\* the provider call in flight resolves with `reply`
OnResolved(r, reply) ==
    ChunkReturned([r EXCEPT !.retry = WithRetryResolved(@),
                            !.calls = SettleLast(@, "ok"),
                            !.lastReply = [provider |-> r.stage, records |-> reply]],
                  reply)

NotifyRetry(r, w) ==
    [r EXCEPT !.batchEvents =
        Send(@, Ev("batch-analysis-retry", r.stage, w.onRetry[Len(w.onRetry)].attempt,
                   ChunkMaxRetries, 0))]

\* the provider call in flight rejects with `error`
OnRejected(r, error) ==
    LET w  == WithRetryRejected(r.retry, error)
        r1 == [r EXCEPT !.retry = w, !.calls = SettleLast(@, "error")]
    IN IF w.state = "sleep" THEN [save |-> <<>>, run |-> NotifyRetry(r1, w)]
       ELSE IF r.stage = "OpenRouter"
            THEN [save |-> <<>>, run |-> BeginGemini([r1 EXCEPT !.openRouterError = w.thrown])]
            ELSE ChunkThrew(r1, Err(CombinedMessage(r.fn, r.openRouterError, w.thrown)))

\* the backoff timer of the withRetry in flight fires
OnAwake(r) ==
    LET w  == WithRetryAwake(r.retry)
        r1 == [r EXCEPT !.retry = w] IN
    IF w.state = "operation"
    THEN [save |-> <<>>, run |-> [r1 EXCEPT !.calls = Append(@, Call(r.stage, w.attempt))]]
    ELSE IF r.stage = "OpenRouter"
         THEN [save |-> <<>>, run |-> BeginGemini([r1 EXCEPT !.openRouterError = w.thrown])]
         ELSE ChunkThrew(r1, Err(CombinedMessage(r.fn, r.openRouterError, w.thrown)))

Pending(r) == r.status = "pending"

\* the frame of a call that went past the guards, at `isProcessing = true`
NewRun(fn, processes) ==
    LET uniqueProcesses == Deduplicated[processes]
        duplicateInstances == Len(processes) - Len(uniqueProcesses)
        chunks == Batches[processes]
        e1 == IF duplicateInstances > 0 /\ webContents = "wc"
              THEN <<Ev("batch-analysis-log", "Deduplication", Len(processes),
                        Len(uniqueProcesses), duplicateInstances)>>
              ELSE <<>>
        e2 == IF Len(chunks) > 1
              THEN Send(e1, Ev("batch-analysis-log", "Split", Len(uniqueProcesses), Len(chunks), 0))
              ELSE e1
    IN BeginBatch(
        [ fn |-> fn, chunks |-> chunks, i |-> 1, allResults |-> <<>>, results |-> <<>>,
          openRouterError |-> NoError, stage |-> "none", primaryChecked |-> FALSE,
          retry |-> WithRetryStart(ChunkMaxRetries, DefaultBaseDelay),
          calls |-> <<>>, batchEvents |-> <<>>, events |-> e2, lastReply |-> NoReply,
          unsaved |-> {}, status |-> "pending", error |-> NoError ])

Settled(status, error) == [status |-> status, error |-> error]

NoCall == Settled("none", NoError)

BusyNever == FALSE

\* `if (isProcessing)`
Busy == isProcessing

\* `if (!geminiProvider.isInitialized())`
NotReady == ~genAI

\* isAnalyzing()
isAnalyzing == isProcessing

FlagAfterBusyCleared == FALSE

\* the Busy throw leaves isProcessing as it is
FlagAfterBusy == isProcessing

FlagAfterEmptySet == TRUE

\* `return []` comes before `isProcessing = true`
FlagAfterEmpty == isProcessing

----------------------------------------------------------------------------
(* Actions *)

InitGeminiAnyKey(key, wc) ==
    /\ genAI' = (key # "")
    /\ webContents' = wc
    /\ lastSync' = NoCall
    /\ UNCHANGED <<apiKey, isProcessing, runs, cache, devCache, rt, pure, main>>

\* initGemini(apiKey, wc)
InitGemini(key, wc) ==
    /\ IF key = "" THEN UNCHANGED <<genAI, webContents>>
       ELSE genAI' = TRUE /\ webContents' = wc
    /\ lastSync' = NoCall
    /\ UNCHANGED <<apiKey, isProcessing, runs, cache, devCache, rt, pure, main>>

\* initOpenRouter(apiKey)
InitOpenRouter(key) ==
    /\ IF key = "" THEN UNCHANGED apiKey ELSE apiKey' = TRUE
    /\ lastSync' = NoCall
    /\ UNCHANGED <<genAI, webContents, isProcessing, runs, cache, devCache, rt, pure, main>>

\* a call of analyzeProcessesBatch / analyzeDevModeBatch, up to its first await
AnalyzeCall(fn, processes) ==
    /\ IF NotReady
       THEN /\ lastSync' = Settled("threw", NotInitializedError)
            /\ UNCHANGED <<isProcessing, runs>>
       ELSE IF Busy
       THEN /\ lastSync' = Settled("threw", BusyError)
            /\ isProcessing' = FlagAfterBusy
            /\ UNCHANGED runs
       ELSE IF Len(processes) = 0 \/ Len(Deduplicated[processes]) = 0
       THEN /\ lastSync' = Settled("returned", NoError)
            /\ isProcessing' = FlagAfterEmpty
            /\ UNCHANGED runs
       ELSE /\ isProcessing' = TRUE
            /\ runs' = Append(SelectSeq(runs, Pending), NewRun(fn, processes))
            /\ lastSync' = NoCall
    /\ UNCHANGED <<genAI, apiKey, webContents, cache, devCache, rt, pure>>

\* the call made by a caller that does not wait for it in main.ts
Analyze(fn, processes) == AnalyzeCall(fn, processes) /\ UNCHANGED main

analyzeProcessesBatch == \E processes \in ProcessesInputs : Analyze("analyzeProcessesBatch", processes)

analyzeDevModeBatch == \E processes \in DevModeInputs : Analyze("analyzeDevModeBatch", processes)

Awaiting(k) ==
    /\ k \in 1..Len(runs)
    /\ Pending(runs[k])
    /\ runs[k].retry.state = "operation"

ProviderReady(stage) == IF stage = "OpenRouter" THEN apiKey ELSE genAI

\* the step of a run: the new frame, the cache writes of saveBatchAnalysis /
\* saveDevModeBatchAnalysis, and the finally block when the run settles
StepRun(k, out) ==
    \E frame \in { out } :
    \E failing \in WriteFailures(frame.save) :
        /\ runs' = [runs EXCEPT ![k] =
                        [frame.run EXCEPT !.unsaved = @ \cup FailedWrites(frame.save, failing)]]
        /\ IF IsDevMode(runs[k].fn)
           THEN devCache' = saveBatchAnalysis(devCache, frame.save, failing) /\ UNCHANGED cache
           ELSE cache' = saveBatchAnalysis(cache, frame.save, failing) /\ UNCHANGED devCache
        /\ isProcessing' = IF Pending(frame.run) THEN isProcessing
                           ELSE FlagAfterSettle(frame.run.status)
        /\ lastSync' = NoCall
        /\ UNCHANGED <<genAI, apiKey, webContents, rt, pure>>

Step(k, out) == StepRun(k, out) /\ UNCHANGED main

\* provider.analyze / analyzeDevModeWithProvider resolves
ProviderResolves ==
    \E k \in 1..Len(runs) :
        /\ Awaiting(k)
        /\ ProviderReady(runs[k].stage)
        /\ \E reply \in Replies(runs[k].fn, runs[k].chunks[runs[k].i]) :
              Step(k, OnResolved(runs[k], reply))

\* provider.analyze / analyzeDevModeWithProvider rejects
ProviderRejects ==
    \E k \in 1..Len(runs) :
        /\ Awaiting(k)
        /\ \E error \in (IF ~ProviderReady(runs[k].stage)
                         THEN (IF runs[k].stage = "OpenRouter" THEN {OpenRouterKeyNotSet}
                               ELSE {GeminiNotInitialized})
                         ELSE IF runs[k].stage = "OpenRouter" THEN OpenRouterErrors
                         ELSE GeminiErrors) :
              Step(k, OnRejected(runs[k], error))

\* the timer of sleep(delay) fires
BackoffElapsed ==
    \E k \in 1..Len(runs) :
        /\ k \in 1..Len(runs)
        /\ Pending(runs[k])
        /\ runs[k].retry.state = "sleep"
        /\ Step(k, OnAwake(runs[k]))

Keys == { "", "key" }

NoApplication == [fn |-> "none"]

NoUpdate == [sent |-> FALSE, analysis |-> {}, analyzing |-> FALSE]

\* main.ts before app.whenReady: no window, no poll timer
NoWindow == [win |-> FALSE, monitorInterval |-> FALSE, fetching |-> 0, update |-> NoUpdate]

Init ==
    /\ genAI = FALSE
    /\ apiKey = FALSE
    /\ webContents = "null"
    /\ isProcessing = FALSE
    /\ runs = <<>>
    /\ lastSync = NoCall
    /\ cache = {}
    /\ devCache = {}
    /\ main = NoWindow
    /\ rt = WithRetryStart(DefaultMaxRetries, DefaultBaseDelay)
    /\ pure = NoApplication

Next ==
    \/ \E key \in Keys : InitGemini(key, "wc")
    \/ \E key \in Keys : InitOpenRouter(key)
    \/ analyzeProcessesBatch
    \/ analyzeDevModeBatch
    \/ ProviderResolves
    \/ ProviderRejects
    \/ BackoffElapsed

Spec == Init /\ [][Next]_vars

----------------------------------------------------------------------------
(* The service with a window that can go away: the webContents handed to   *)
(* initGemini is destroyed while the service lives on.                      *)

\* webContents.isDestroyed() becomes true
WebContentsDestroyed ==
    /\ webContents = "wc"
    /\ webContents' = "destroyed"
    /\ lastSync' = NoCall
    /\ UNCHANGED <<genAI, apiKey, isProcessing, runs, cache, devCache, rt, pure, main>>

\* save-api-key while the window is there
WindowInitGemini == webContents # "destroyed" /\ \E key \in Keys : InitGemini(key, "wc")

\* batch-analyze on a machine that needs three batches
WindowAnalyze == Analyze("analyzeProcessesBatch", LongInput)

WindowNext ==
    \/ WindowInitGemini
    \/ \E key \in Keys : InitOpenRouter(key)
    \/ WindowAnalyze
    \/ ProviderResolves
    \/ ProviderRejects
    \/ BackoffElapsed
    \/ WebContentsDestroyed

WindowSpec == Init /\ [][WindowNext]_vars

----------------------------------------------------------------------------
(* withRetry on its own, for every maxRetries up to MaxRetriesBound and an *)
(* operation that may resolve or reject with any of the errors at each call *)

BaseDelays == { DefaultBaseDelay, 500 }

RetryErrors ==
    OpenRouterErrors \cup GeminiErrors \cup { Err(<<"fetch failed">>) }

RtResolves ==
    /\ rt.state = "operation"
    /\ rt' = WithRetryResolved(rt)
    /\ UNCHANGED <<svcVars, pure, main>>

RtRejects ==
    /\ rt.state = "operation"
    /\ \E error \in RetryErrors : rt' = WithRetryRejected(rt, error)
    /\ UNCHANGED <<svcVars, pure, main>>

RtAwake ==
    /\ rt.state = "sleep"
    /\ rt' = WithRetryAwake(rt)
    /\ UNCHANGED <<svcVars, pure, main>>

RetryInit ==
    /\ genAI = FALSE
    /\ apiKey = FALSE
    /\ webContents = "null"
    /\ isProcessing = FALSE
    /\ runs = <<>>
    /\ lastSync = NoCall
    /\ cache = {}
    /\ devCache = {}
    /\ main = NoWindow
    /\ pure = NoApplication
    /\ \E maxRetries \in 0..MaxRetriesBound, baseDelay \in BaseDelays :
          rt = WithRetryStart(maxRetries, baseDelay)

RetryNext == RtResolves \/ RtRejects \/ RtAwake

RetrySpec == RetryInit /\ [][RetryNext]_vars

----------------------------------------------------------------------------
(* deduplicateProcesses on its own: every snapshot of up to MaxProcesses    *)
(* entries over two names in both casings with two sets of figures, and the *)
(* function applied to the snapshot and then to its own output.             *)

SeqsUpTo(S, n) == UNION { [1..m -> S] : m \in 0..n }

DedupNames == { <<1, FALSE>>, <<1, TRUE>>, <<2, FALSE>> }

DedupEntries == { ProcessInfo(name, cpu) : name \in DedupNames, cpu \in {1, 2} }

Deduplicate ==
    /\ pure.fn = "deduplicateProcesses"
    /\ Len(pure.outputs) < 2
    /\ pure' = [pure EXCEPT !.outputs =
                    Append(@, deduplicateProcesses(IF @ = <<>> THEN pure.input ELSE @[Len(@)]))]
    /\ UNCHANGED <<svcVars, rt, main>>

DedupInit ==
    /\ genAI = FALSE
    /\ apiKey = FALSE
    /\ webContents = "null"
    /\ isProcessing = FALSE
    /\ runs = <<>>
    /\ lastSync = NoCall
    /\ cache = {}
    /\ devCache = {}
    /\ main = NoWindow
    /\ rt = WithRetryStart(DefaultMaxRetries, DefaultBaseDelay)
    /\ \E processes \in SeqsUpTo(DedupEntries, MaxProcesses) :
          pure = [fn |-> "deduplicateProcesses", input |-> processes, outputs |-> <<>>]

DedupNext == Deduplicate

DedupSpec == DedupInit /\ [][DedupNext]_vars

----------------------------------------------------------------------------
(* createProcessBatches on its own: snapshots of 0..MaxItems entries, with  *)
(* all entries equal, entries repeating with period 3, or all distinct.     *)

BatchPeriods == { 1, 3, MaxItems + 1 }

BatchInput(n, period) == [k \in 1..n |-> ProcessInfo(<<k % period, FALSE>>, k % period)]

CreateBatches ==
    /\ pure.fn = "createProcessBatches"
    /\ ~pure.returned
    /\ pure' = [pure EXCEPT !.output = createProcessBatches(pure.input), !.returned = TRUE]
    /\ UNCHANGED <<svcVars, rt, main>>

BatchInit ==
    /\ genAI = FALSE
    /\ apiKey = FALSE
    /\ webContents = "null"
    /\ isProcessing = FALSE
    /\ runs = <<>>
    /\ lastSync = NoCall
    /\ cache = {}
    /\ devCache = {}
    /\ main = NoWindow
    /\ rt = WithRetryStart(DefaultMaxRetries, DefaultBaseDelay)
    /\ \E n \in 0..MaxItems, period \in BatchPeriods :
          pure = [fn |-> "createProcessBatches", input |-> BatchInput(n, period),
                  output |-> <<>>, returned |-> FALSE]

BatchNext == CreateBatches

BatchSpec == BatchInit /\ [][BatchNext]_vars

----------------------------------------------------------------------------
(* The response parsers (OpenRouterProvider.parseResponse and               *)
(* GeminiProvider.parseResponse).  A reply text is a sequence of tokens:    *)
(* the fence markers ```json and ```, written "fence:json" and "fence",     *)
(* white space " ", prose "x", the JSON punctuation "[", "]", ",", the      *)
(* literal "null", and "objA", "objB", each standing for the text of one    *)
(* object literal {n, r, d, k}.                                             *)

JsonObjects ==
    [ objA |-> [n |-> "a.exe", r |-> "Safe", d |-> "x", k |-> "true"],
      objB |-> [n |-> "b.exe", r |-> "Bloat", d |-> "y", k |-> "false"] ]

\* text.replace(/```json/g, '').replace(/```/g, '')
StripFences(text) == SelectSeq(text, LAMBDA t : t \notin { "fence:json", "fence" })

\* String.prototype.trim
Trim(text) ==
    LET inked == { k \in 1..Len(text) : text[k] # " " } IN
    IF inked = {} THEN <<>>
    ELSE SubSeq(text, CHOOSE a \in inked : \A b \in inked : a <= b,
                      CHOOSE a \in inked : \A b \in inked : a >= b)

\* indexOf / lastIndexOf, 1-based, 0 for -1
indexOf(text, t) ==
    IF \E k \in 1..Len(text) : text[k] = t
    THEN CHOOSE k \in 1..Len(text) : text[k] = t /\ \A j \in 1..(k - 1) : text[j] # t
    ELSE 0

lastIndexOf(text, t) ==
    IF \E k \in 1..Len(text) : text[k] = t
    THEN CHOOSE k \in 1..Len(text) : text[k] = t /\ \A j \in (k + 1)..Len(text) : text[j] # t
    ELSE 0

\* the values JSON.parse returns, and its SyntaxError
JsonNull == [type |-> "null"]

JsonObject(t) ==
    [type |-> "object", n |-> JsonObjects[t].n, r |-> JsonObjects[t].r,
     d |-> JsonObjects[t].d, k |-> JsonObjects[t].k]

JsonArray(items) == [type |-> "array", items |-> items]

SyntaxError == [type |-> "SyntaxError"]

JsonFail == [ok |-> FALSE, value |-> SyntaxError, next |-> 0]

\* the first position from p on that is not white space
RECURSIVE SkipWs(_, _)
SkipWs(text, p) == IF p <= Len(text) /\ text[p] = " " THEN SkipWs(text, p + 1) ELSE p

\* JSON.parse: value := object | null | "[" "]" | "[" value ("," value)* "]"
RECURSIVE JsonValue(_, _), JsonElements(_, _, _)
JsonValue(text, p) ==
    LET q == SkipWs(text, p) IN
    IF q > Len(text) THEN JsonFail
    ELSE IF text[q] \in DOMAIN JsonObjects
         THEN [ok |-> TRUE, value |-> JsonObject(text[q]), next |-> q + 1]
    ELSE IF text[q] = "null" THEN [ok |-> TRUE, value |-> JsonNull, next |-> q + 1]
    ELSE IF text[q] = "["
         THEN LET q2 == SkipWs(text, q + 1) IN
              IF q2 <= Len(text) /\ text[q2] = "]"
              THEN [ok |-> TRUE, value |-> JsonArray(<<>>), next |-> q2 + 1]
              ELSE JsonElements(text, q + 1, <<>>)
    ELSE JsonFail

JsonElements(text, p, items) ==
    LET v == JsonValue(text, p) IN
    IF ~v.ok THEN JsonFail
    ELSE LET q == SkipWs(text, v.next) IN
         IF q > Len(text) THEN JsonFail
         ELSE IF text[q] = "," THEN JsonElements(text, q + 1, Append(items, v.value))
         ELSE IF text[q] = "]"
              THEN [ok |-> TRUE, value |-> JsonArray(Append(items, v.value)), next |-> q + 1]
         ELSE JsonFail

JSONparse(text) ==
    LET v == JsonValue(text, 1) IN
    IF v.ok /\ SkipWs(text, v.next) > Len(text) THEN v.value ELSE SyntaxError

\* item.f: the field of an object, undefined on an array (and a TypeError on
\* null, which the callers test first)
Field(item, f) == IF item.type = "object" THEN item[f] ELSE "undefined"

\* `item.k ? 'Keep - Required for system' : 'Safe to terminate'`
Recommendation(k) == IF k = "true" THEN "Keep - Required for system" ELSE "Safe to terminate"

Parsed(records) == [ok |-> TRUE, records |-> records, error |-> NoError]

ParseThrew(error) == [ok |-> FALSE, records |-> <<>>, error |-> error]

NoArrayError == Err(<<"No valid JSON array found in response">>)

OpenRouterParseError == Err(<<"Failed to parse JSON response from OpenRouter">>)

GeminiParseError == Err(<<"Failed to parse JSON response from Gemini">>)

OpenRouterParseResponseKeepAll(text) ==
    LET jsonStr == Trim(StripFences(text))
        arrayStart == indexOf(jsonStr, "[")
        arrayEnd == lastIndexOf(jsonStr, "]")
    IN IF arrayStart = 0 \/ arrayEnd = 0 \/ arrayStart >= arrayEnd
       THEN ParseThrew(NoArrayError)
       ELSE LET data == JSONparse(SubSeq(jsonStr, arrayStart, arrayEnd)) IN
            IF data = SyntaxError THEN ParseThrew(OpenRouterParseError)
            ELSE IF \E j \in 1..Len(data.items) : data.items[j] = JsonNull
                 THEN ParseThrew(OpenRouterParseError)
            ELSE Parsed([j \in 1..Len(data.items) |->
                    [process_name |-> Field(data.items[j], "n"),
                     risk_level |-> Field(data.items[j], "r"),
                     description |-> Field(data.items[j], "d"),
                     recommendation |-> "Keep - Required for system"]])

\* OpenRouterProvider.parseResponse
OpenRouterParseResponse(text) ==
    LET jsonStr == Trim(StripFences(text))
        arrayStart == indexOf(jsonStr, "[")
        arrayEnd == lastIndexOf(jsonStr, "]")
    IN IF arrayStart = 0 \/ arrayEnd = 0 \/ arrayStart >= arrayEnd
       THEN ParseThrew(NoArrayError)
       ELSE LET data == JSONparse(SubSeq(jsonStr, arrayStart, arrayEnd)) IN
            IF data = SyntaxError THEN ParseThrew(OpenRouterParseError)
            ELSE IF \E j \in 1..Len(data.items) : data.items[j] = JsonNull
                 THEN ParseThrew(OpenRouterParseError)
            ELSE Parsed([j \in 1..Len(data.items) |->
                    [process_name |-> Field(data.items[j], "n"),
                     risk_level |-> Field(data.items[j], "r"),
                     description |-> Field(data.items[j], "d"),
                     recommendation |-> Recommendation(Field(data.items[j], "k"))]])

GeminiParseResponseWholeText(text) ==
    LET jsonStr == Trim(StripFences(text))
        arrayStart == indexOf(jsonStr, "[")
        arrayEnd == lastIndexOf(jsonStr, "]")
    IN IF arrayStart = 0 \/ arrayEnd = 0 \/ arrayStart >= arrayEnd
       THEN ParseThrew(NoArrayError)
       ELSE LET data == JSONparse(jsonStr) IN
            IF data = SyntaxError THEN ParseThrew(GeminiParseError)
            ELSE IF \E j \in 1..Len(data.items) : data.items[j] = JsonNull
                 THEN ParseThrew(GeminiParseError)
            ELSE Parsed([j \in 1..Len(data.items) |->
                    [process_name |-> Field(data.items[j], "n"),
                     risk_level |-> Field(data.items[j], "r"),
                     description |-> Field(data.items[j], "d"),
                     recommendation |-> Recommendation(Field(data.items[j], "k"))]])

\* GeminiProvider.parseResponse
GeminiParseResponse(text) ==
    LET jsonStr == Trim(StripFences(text))
        arrayStart == indexOf(jsonStr, "[")
        arrayEnd == lastIndexOf(jsonStr, "]")
    IN IF arrayStart = 0 \/ arrayEnd = 0 \/ arrayStart >= arrayEnd
       THEN ParseThrew(NoArrayError)
       ELSE LET data == JSONparse(SubSeq(jsonStr, arrayStart, arrayEnd)) IN
            IF data = SyntaxError THEN ParseThrew(GeminiParseError)
            ELSE IF \E j \in 1..Len(data.items) : data.items[j] = JsonNull
                 THEN ParseThrew(GeminiParseError)
            ELSE Parsed([j \in 1..Len(data.items) |->
                    [process_name |-> Field(data.items[j], "n"),
                     risk_level |-> Field(data.items[j], "r"),
                     description |-> Field(data.items[j], "d"),
                     recommendation |-> Recommendation(Field(data.items[j], "k"))]])

\* what the model may put around the JSON: nothing; prose and a fenced
\* block; prose that has brackets of its own
Wrappers ==
    { [before |-> <<>>, after |-> <<>>],
      [before |-> <<"x", " ", "fence:json", " ">>, after |-> <<" ", "fence", " ", "x">>],
      [before |-> <<"x", "[", " ", "objB", "]", " ">>, after |-> <<>>] }

BodyTokens == { "[", "]", ",", "null", "objA", "objB" }

ReplyTexts ==
    { w.before \o body \o w.after : w \in Wrappers, body \in SeqsUpTo(BodyTokens, MaxTokens) }

OpenRouterParses ==
    /\ pure.fn = "parseResponse"
    /\ pure.provider = "none"
    /\ pure' = [pure EXCEPT !.provider = "OpenRouter",
                            !.result = OpenRouterParseResponse(pure.text)]
    /\ UNCHANGED <<svcVars, rt, main>>

GeminiParses ==
    /\ pure.fn = "parseResponse"
    /\ pure.provider = "none"
    /\ pure' = [pure EXCEPT !.provider = "Gemini",
                            !.result = GeminiParseResponse(pure.text)]
    /\ UNCHANGED <<svcVars, rt, main>>

ParseInit ==
    /\ genAI = FALSE
    /\ apiKey = FALSE
    /\ webContents = "null"
    /\ isProcessing = FALSE
    /\ runs = <<>>
    /\ lastSync = NoCall
    /\ cache = {}
    /\ devCache = {}
    /\ main = NoWindow
    /\ rt = WithRetryStart(DefaultMaxRetries, DefaultBaseDelay)
    /\ \E text \in ReplyTexts :
          pure = [fn |-> "parseResponse", text |-> text, provider |-> "none",
                  result |-> ParseThrew(NoError)]

ParseNext == OpenRouterParses \/ GeminiParses

ParseSpec == ParseInit /\ [][ParseNext]_vars

----------------------------------------------------------------------------
(* OpenRouterProvider.analyze answered with a non-2xx response, under the   *)
(* withRetry of analyzeProcessChunk: every attempt is refused with the same *)
(* status, status text and body.                                            *)

HttpStatuses ==
    { <<"400", "Bad Request">>, <<"401", "Unauthorized">>, <<"429", "Too Many Requests">>,
      <<"500", "Internal Server Error">>, <<"503", "Service Unavailable">> }

\* the texts of response.text(): empty, or a text that has the given part
HttpBodies == { "", "overloaded", "429", "503", "Service Unavailable", "fetch failed" }

HttpRejects ==
    /\ pure.fn = "analyze"
    /\ rt.state = "operation"
    /\ rt' = WithRetryRejected(rt, HttpRefused(pure.status, pure.statusText, pure.body))
    /\ UNCHANGED <<svcVars, pure, main>>

HttpBackoffElapsed ==
    /\ pure.fn = "analyze"
    /\ rt.state = "sleep"
    /\ rt' = WithRetryAwake(rt)
    /\ UNCHANGED <<svcVars, pure, main>>

HttpInit ==
    /\ genAI = FALSE
    /\ apiKey = FALSE
    /\ webContents = "null"
    /\ isProcessing = FALSE
    /\ runs = <<>>
    /\ lastSync = NoCall
    /\ cache = {}
    /\ devCache = {}
    /\ main = NoWindow
    /\ rt = WithRetryStart(ChunkMaxRetries, DefaultBaseDelay)
    /\ \E st \in HttpStatuses, body \in HttpBodies :
          pure = [fn |-> "analyze", status |-> st[1], statusText |-> st[2], body |-> body]

HttpNext == HttpRejects \/ HttpBackoffElapsed

HttpSpec == HttpInit /\ [][HttpNext]_vars

----------------------------------------------------------------------------
(* main.ts: the telemetry poll next to the batch runs.  The machine runs    *)
(* one program twice ("chrome.exe" and "CHROME.EXE"); the handlers pass    *)
(* that snapshot to the service.                                            *)

MainInputs == { <<LowerCased, UpperCased>> }

\* processes.list of si.processes()
ProcessList == <<LowerCased, UpperCased>>

\* getAnalysis / getDevModeAnalysis: SELECT * ... WHERE process_name = ?
getAnalysis(table, processName) == { row \in table : row.process_name = processName }

\* the analysis fields of enrichedList
EnrichedList(table) ==
    UNION { getAnalysis(table, ProcessList[k].name) : k \in 1..Len(ProcessList) }

FetchAllowedWhenIdle == main.win /\ ~isAnalyzing

\* `if (!win || win.isDestroyed()) return;` is false
FetchAllowed == main.win

\* the timer of setInterval(fetchProcesses, POLL_INTERVAL) fires:
\* fetchProcesses up to `await Promise.all([...])`
PollTick ==
    /\ main.monitorInterval
    /\ main.fetching < MaxFetches
    /\ main' = IF FetchAllowed THEN [main EXCEPT !.fetching = @ + 1] ELSE main
    /\ UNCHANGED <<svcVars, rt, pure>>

\* si.processes() and getPrivateMemoryStats() resolved: the rest of the try block
FetchResolves ==
    /\ main.fetching > 0
    /\ \E devModeEnabled \in BOOLEAN :
          main' = [main EXCEPT
                     !.fetching = @ - 1,
                     !.update = IF main.win
                                THEN [sent |-> TRUE,
                                      analysis |-> EnrichedList(IF devModeEnabled THEN devCache
                                                                ELSE cache),
                                      analyzing |-> isAnalyzing]
                                ELSE @]
    /\ UNCHANGED <<svcVars, rt, pure>>

\* si.processes() rejected: `catch (error) { console.error(...) }`
FetchRejects ==
    /\ main.fetching > 0
    /\ main' = [main EXCEPT !.fetching = @ - 1]
    /\ UNCHANGED <<svcVars, rt, pure>>

\* app.on('window-all-closed'): stopMonitoring(), win = null
WindowAllClosed ==
    /\ main.win
    /\ main' = [main EXCEPT !.win = FALSE, !.monitorInterval = FALSE]
    /\ UNCHANGED <<svcVars, rt, pure>>

MainBatchAnalyze == \E processes \in MainInputs : Analyze("analyzeProcessesBatch", processes)

MainBatchAnalyzeDevMode == \E processes \in MainInputs : Analyze("analyzeDevModeBatch", processes)

\* app.whenReady(): the stored keys are handed to the providers, the window
\* is created and startMonitoring() has made the first call of fetchProcesses
MainInit ==
    /\ \E geminiApiKey \in Keys :
          /\ genAI = (geminiApiKey # "")
          /\ webContents = IF geminiApiKey # "" THEN "wc" ELSE "null"
    /\ \E openRouterApiKey \in Keys : apiKey = (openRouterApiKey # "")
    /\ isProcessing = FALSE
    /\ runs = <<>>
    /\ lastSync = NoCall
    /\ cache = {}
    /\ devCache = {}
    /\ rt = WithRetryStart(DefaultMaxRetries, DefaultBaseDelay)
    /\ pure = NoApplication
    /\ main = [win |-> TRUE, monitorInterval |-> TRUE, fetching |-> 1, update |-> NoUpdate]

MainNext ==
    \/ \E key \in Keys : InitGemini(key, "wc")
    \/ \E key \in Keys : InitOpenRouter(key)
    \/ MainBatchAnalyze
    \/ MainBatchAnalyzeDevMode
    \/ ProviderResolves
    \/ ProviderRejects
    \/ BackoffElapsed
    \/ PollTick
    \/ FetchResolves
    \/ FetchRejects
    \/ WindowAllClosed

MainSpec == MainInit /\ [][MainNext]_vars

----------------------------------------------------------------------------
(* main.ts: the kill-process handler.  main.killed holds the pids passed   *)
(* to process.kill so far, main.reply what the last request returned.       *)

Pids == 0..MaxPid

ProtectedError == "Cannot kill system idle or system process."

\* error.message of what process.kill throws (no such process, no permission)
KillErrors == { "kill ESRCH", "kill EPERM" }

IsProtectedPidIdleOnly(pid) == pid = 0

\* `pid === 0 || pid === 4`
IsProtectedPid(pid) == pid = 0 \/ pid = 4

NoKillReply == [pid |-> -1, success |-> FALSE, error |-> ""]

\* ipcMain.handle('kill-process', ...)
KillProcess(pid) ==
    /\ main.fn = "kill-process"
    /\ IF IsProtectedPid(pid)
       THEN main' = [main EXCEPT !.reply = [pid |-> pid, success |-> FALSE,
                                            error |-> ProtectedError]]
       ELSE \/ main' = [main EXCEPT !.killed = @ \cup {pid},
                                    !.reply = [pid |-> pid, success |-> TRUE, error |-> ""]]
            \/ \E message \in KillErrors :
                  main' = [main EXCEPT !.killed = @ \cup {pid},
                                       !.reply = [pid |-> pid, success |-> FALSE,
                                                  error |-> message]]
    /\ UNCHANGED <<svcVars, rt, pure>>

KillInit ==
    /\ genAI = FALSE
    /\ apiKey = FALSE
    /\ webContents = "null"
    /\ isProcessing = FALSE
    /\ runs = <<>>
    /\ lastSync = NoCall
    /\ cache = {}
    /\ devCache = {}
    /\ rt = WithRetryStart(DefaultMaxRetries, DefaultBaseDelay)
    /\ pure = NoApplication
    /\ main = [fn |-> "kill-process", killed |-> {}, reply |-> NoKillReply]

KillNext == \E pid \in Pids : KillProcess(pid)

KillSpec == KillInit /\ [][KillNext]_vars

----------------------------------------------------------------------------
(* ipcMain.handle('batch-analyze') (main.ts).  Each invocation of the       *)
(* handler is a frame: awaiting si.processes(), awaiting                     *)
(* analyzeProcessesBatch, or settled with the value handed to the renderer. *)

MaxInvocations == 2

Handlers == 1..MaxInvocations

NoIpcReply == [success |-> FALSE, count |-> -1, error |-> <<>>]

\* { success: true, count, message }
IpcSuccess(count) == [success |-> TRUE, count |-> count, error |-> <<>>]

\* { success: false, error }
IpcFailure(message) == [success |-> FALSE, count |-> -1, error |-> message]

IdleHandler == [state |-> "idle", reply |-> NoIpcReply]

Resolved(reply) == [state |-> "resolved", reply |-> reply]

AlreadyInProgress == <<"Analysis already in progress">>

\* what si.processes() rejects with, if it does
SnapshotError == Err(<<"si.processes failed">>)

BatchAnalyzeNoCatch(error) == [state |-> "rejected", reply |-> NoIpcReply]

\* `catch (error: any) { return { success: false, error: error.message }; }`
\* reading .message of null throws inside the catch block
BatchAnalyzeCatch(error) ==
    IF error.type = "null" THEN [state |-> "rejected", reply |-> NoIpcReply]
    ELSE Resolved(IpcFailure(error.message))

HandlerSettled(h) == main.handlers[h].state \in { "idle", "resolved", "rejected" }

\* the renderer invokes 'batch-analyze': the handler up to `await si.processes()`
BatchAnalyzeInvoked(h) ==
    /\ HandlerSettled(h)
    /\ main' = [main EXCEPT !.handlers[h] =
                    IF isAnalyzing THEN Resolved(IpcFailure(AlreadyInProgress))
                    ELSE [state |-> "snapshot", reply |-> NoIpcReply]]
    /\ UNCHANGED <<svcVars, rt, pure>>

needAnalysisUnfiltered(list) == list

\* `processes.list.filter((p: any) => !getAnalysis(p.name))`
needAnalysis(list) == SelectSeq(list, LAMBDA p : getAnalysis(cache, p.name) = {})

\* si.processes() resolves: the handler from the filter up to
\* `await analyzeProcessesBatch(processInfo)`, or to its return
SnapshotResolves(h) ==
    /\ main.handlers[h].state = "snapshot"
    /\ IF Len(needAnalysis(ProcessList)) = 0
       THEN /\ main' = [main EXCEPT !.handlers[h] = Resolved(IpcSuccess(0))]
            /\ UNCHANGED svcVars
            /\ UNCHANGED <<rt, pure>>
       ELSE /\ AnalyzeCall("analyzeProcessesBatch", needAnalysis(ProcessList))
            /\ main' = [main EXCEPT !.handlers[h] =
                            IF lastSync'.status = "threw" THEN BatchAnalyzeCatch(lastSync'.error)
                            ELSE IF lastSync'.status = "returned" THEN Resolved(IpcSuccess(0))
                            ELSE [state |-> "run", reply |-> NoIpcReply]]

\* si.processes() rejects
SnapshotRejects(h) ==
    /\ main.handlers[h].state = "snapshot"
    /\ main' = [main EXCEPT !.handlers[h] = BatchAnalyzeCatch(SnapshotError)]
    /\ UNCHANGED <<svcVars, rt, pure>>

\* the handler that awaits the run, after the run's step
AfterRun(handler, r) ==
    IF handler.state # "run" \/ Pending(r) THEN handler
    ELSE IF r.status = "returned" THEN Resolved(IpcSuccess(Len(r.allResults)))
    ELSE BatchAnalyzeCatch(r.error)

\* a step of the run, and the rest of the handler when the run settles
IpcStep(k, out) ==
    /\ StepRun(k, out)
    /\ main' = [main EXCEPT !.handlers = [h \in Handlers |-> AfterRun(@[h], runs'[k])]]

IpcProviderResolves ==
    \E k \in 1..Len(runs) :
        /\ Awaiting(k)
        /\ ProviderReady(runs[k].stage)
        /\ \E reply \in Replies(runs[k].fn, runs[k].chunks[runs[k].i]) :
              IpcStep(k, OnResolved(runs[k], reply))

IpcProviderRejects ==
    \E k \in 1..Len(runs) :
        /\ Awaiting(k)
        /\ \E error \in (IF ~ProviderReady(runs[k].stage)
                         THEN (IF runs[k].stage = "OpenRouter" THEN {OpenRouterKeyNotSet}
                               ELSE {GeminiNotInitialized})
                         ELSE IF runs[k].stage = "OpenRouter" THEN OpenRouterErrors
                         ELSE GeminiErrors) :
              IpcStep(k, OnRejected(runs[k], error))

IpcBackoffElapsed ==
    \E k \in 1..Len(runs) :
        /\ Pending(runs[k])
        /\ runs[k].retry.state = "sleep"
        /\ IpcStep(k, OnAwake(runs[k]))

\* app.whenReady() with the stored keys; no 'batch-analyze' received yet
IpcInit ==
    /\ \E geminiApiKey \in Keys :
          /\ genAI = (geminiApiKey # "")
          /\ webContents = IF geminiApiKey # "" THEN "wc" ELSE "null"
    /\ \E openRouterApiKey \in Keys : apiKey = (openRouterApiKey # "")
    /\ isProcessing = FALSE
    /\ runs = <<>>
    /\ lastSync = NoCall
    /\ cache = {}
    /\ devCache = {}
    /\ rt = WithRetryStart(DefaultMaxRetries, DefaultBaseDelay)
    /\ pure = NoApplication
    /\ main = [fn |-> "batch-analyze", handlers |-> [h \in Handlers |-> IdleHandler]]

IpcNext ==
    \/ \E key \in Keys : InitGemini(key, "wc")
    \/ \E key \in Keys : InitOpenRouter(key)
    \/ \E h \in Handlers : BatchAnalyzeInvoked(h)
    \/ \E h \in Handlers : SnapshotResolves(h)
    \/ \E h \in Handlers : SnapshotRejects(h)
    \/ IpcProviderResolves
    \/ IpcProviderRejects
    \/ IpcBackoffElapsed

IpcSpec == IpcInit /\ [][IpcNext]_vars

----------------------------------------------------------------------------
(* Runs whose providers may answer with a text that parseResponse rejects.  *)
(* provider.analyze ends with `return this.parseResponse(text)`, so the     *)
(* error of the parser is the rejection of the call made by withRetry.      *)

\* replies without an array, with an array that JSON.parse rejects, and with
\* a null element
UnparsableTexts ==
    { <<"x">>,
      <<"fence:json", "[", "objA", "objB", "]", "fence">>,
      <<"[", "null", "]">> }

\* `return this.parseResponse(text)` of the provider called
parseResponse(provider, text) ==
    IF provider = "OpenRouter" THEN OpenRouterParseResponse(text)
    ELSE GeminiParseResponse(text)

\* the provider answers and parseResponse throws
ProviderRepliesUnparsable ==
    \E k \in 1..Len(runs) :
        /\ Awaiting(k)
        /\ ProviderReady(runs[k].stage)
        /\ \E text \in UnparsableTexts :
              LET result == parseResponse(runs[k].stage, text) IN
              /\ ~result.ok
              /\ Step(k, OnRejected(runs[k], result.error))

UnparsableNext ==
    \/ \E key \in Keys : InitGemini(key, "wc")
    \/ \E key \in Keys : InitOpenRouter(key)
    \/ MainBatchAnalyze
    \/ ProviderResolves
    \/ ProviderRejects
    \/ ProviderRepliesUnparsable
    \/ BackoffElapsed

UnparsableSpec == Init /\ [][UnparsableNext]_vars

----------------------------------------------------------------------------
(* The process_analysis table, one saveAnalysis at a time (Database.ts)     *)

MaxClock == 3

\* process names as SQLite compares them: BINARY collation, case matters
CacheNames == { <<1, FALSE>>, <<1, TRUE>> }

\* CHECK( risk_level IN ('SystemCritical', 'Safe', 'Bloat', 'Unknown', 'Critical') )
RiskLevels == { "SystemCritical", "Safe", "Bloat", "Unknown", "Critical" }

\* the risk levels a caller passes; "High" is outside the CHECK constraint
CacheLevels == { "Safe", "Bloat", "High" }

\* VALUES (@process_name, @risk_level, ..., CURRENT_TIMESTAMP)
Row(data, now) ==
    [process_name |-> data.process_name, level |-> data.level, last_updated |-> now]

NoData == AnalysisResult(<<0, FALSE>>, "none")

\* saveAnalysis(data) at second `now`: stmt.run throws on the CHECK
\* constraint and leaves the table alone, otherwise the row is written
SaveAnalysis(data, now) ==
    /\ pure.fn = "saveAnalysis"
    /\ IF data.level \in RiskLevels
       THEN cache' = saveAnalysis(cache, Row(data, now))
       ELSE cache' = cache
    /\ pure' = [fn |-> "saveAnalysis", now |-> now, data |-> data, before |-> cache,
                threw |-> data.level \notin RiskLevels]
    /\ UNCHANGED <<genAI, apiKey, webContents, isProcessing, runs, lastSync, devCache, rt, main>>

CacheInit ==
    /\ genAI = FALSE
    /\ apiKey = FALSE
    /\ webContents = "null"
    /\ isProcessing = FALSE
    /\ runs = <<>>
    /\ lastSync = NoCall
    /\ cache = {}
    /\ devCache = {}
    /\ main = NoWindow
    /\ rt = WithRetryStart(DefaultMaxRetries, DefaultBaseDelay)
    /\ pure = [fn |-> "saveAnalysis", now |-> 0, data |-> NoData, before |-> {},
               threw |-> FALSE]

CacheNext ==
    \E name \in CacheNames, level \in CacheLevels :
        \E now \in { pure.now, pure.now + 1 } \cap (0..MaxClock) :
            SaveAnalysis(AnalysisResult(name, level), now)

CacheSpec == CacheInit /\ [][CacheNext]_vars

\* runs over the three batches of LongInput, with every provider call
\* settling and every backoff timer firing
FairNext ==
    \/ \E key \in Keys : InitGemini(key, "wc")
    \/ \E key \in Keys : InitOpenRouter(key)
    \/ WindowAnalyze
    \/ ProviderResolves
    \/ ProviderRejects
    \/ BackoffElapsed

FairSpec ==
    /\ Init
    /\ [][FairNext]_vars
    /\ WF_vars(ProviderRejects \/ ProviderResolves)
    /\ WF_vars(BackoffElapsed)

----------------------------------------------------------------------------
(* Properties *)

PendingRuns == { k \in 1..Len(runs) : Pending(runs[k]) }

CallStep == analyzeProcessesBatch \/ analyzeDevModeBatch

ProviderCalls(r, provider) == { j \in 1..Len(r.calls) : r.calls[j].provider = provider }

ThrewBusy == lastSync = Settled("threw", BusyError)

\* C1: at most one run of analyzeProcessesBatch / analyzeDevModeBatch is
\* pending at any time, and a call made while a run is pending throws
\* 'Batch analysis already in progress', starts no run (so no provider call
\* is made for it) and writes nothing to either cache table.
C1_SingleFlight ==
    /\ [](Cardinality(PendingRuns) <= 1)
    /\ [][ (CallStep /\ PendingRuns # {}) =>
              /\ lastSync' = Settled("threw", BusyError)
              /\ runs' = runs
              /\ cache' = cache /\ devCache' = devCache ]_vars

C1_Witness ==
    /\ ThrewBusy
    /\ \E k \in PendingRuns : runs[k].fn = "analyzeDevModeBatch" /\ runs[k].retry.state = "sleep"

\* C2: the running flag is set only while a run is pending: as soon as a
\* run has returned its results or thrown, isAnalyzing() is false, and a
\* call made then with an initialized secondary provider and a non-empty
\* input is accepted (a run is pending after it).
C2_FlagReleased ==
    /\ [](isAnalyzing => PendingRuns # {})
    /\ [][ \A fn \in {"analyzeProcessesBatch", "analyzeDevModeBatch"} :
             \A processes \in Inputs :
               (Analyze(fn, processes) /\ PendingRuns = {} /\ genAI /\ Len(processes) > 0)
                  => PendingRuns' # {} /\ lastSync' = NoCall ]_vars

C2_Witness ==
    /\ Len(runs) = 1
    /\ runs[1].status = "threw"
    /\ runs[1].i = 2
    /\ ~isAnalyzing

\* C3: a call rejected as Busy changes nothing but its own outcome: the
\* running flag, the frame of the run in flight (its position, its results so
\* far, the events it has emitted), both cache tables and the providers are
\* the same after the call as before it.
C3_BusyFrame ==
    [][ lastSync' = Settled("threw", BusyError) =>
            UNCHANGED <<isProcessing, runs, cache, devCache, genAI, apiKey, webContents>> ]_vars

C3_Witness ==
    /\ ThrewBusy
    /\ isProcessing
    /\ cache # {}
    /\ \E k \in PendingRuns : runs[k].stage = "Gemini" /\ runs[k].i = 2

\* C4: a call is rejected as not-initialized only when no provider has
\* received a credential; with a credential on OpenRouter alone the call is
\* accepted.
C4_NotInitializedOnlyWithoutAnyProvider ==
    lastSync = Settled("threw", NotInitializedError) => (~genAI /\ ~apiKey)

\* C5: withRetry never calls the operation more than maxRetries + 1 times,
\* and when it throws a retryable error (every attempt failed with a
\* retryable error) it has called the operation exactly maxRetries + 1 times
\* and throws the error of the last attempt.
C5_RetryBound ==
    /\ rt.invocations <= rt.maxRetries + 1
    /\ (rt.state = "threw" /\ isRetryableError(rt.thrown)) =>
          /\ rt.invocations = rt.maxRetries + 1
          /\ rt.thrown = rt.lastError
          /\ Len(rt.onRetry) = rt.maxRetries

C5_Witness ==
    /\ rt.state = "threw"
    /\ rt.maxRetries = DefaultMaxRetries
    /\ rt.invocations = 4
    /\ isRetryableError(rt.thrown)
    /\ rt.onRetry[1].error # rt.thrown

\* C6: when the latest attempt failed with a non-retryable error, withRetry
\* has thrown exactly that error: the operation was called once per attempt
\* up to that one and not again, and onRetry and the backoff wait happened
\* only for the earlier, retryable failures.
C6_NonRetryableNotRetried ==
    /\ \A j \in 1..Len(rt.onRetry) : isRetryableError(rt.onRetry[j].error)
    /\ (rt.lastError # NoError /\ ~isRetryableError(rt.lastError)) =>
          /\ rt.state = "threw"
          /\ rt.thrown = rt.lastError
          /\ rt.invocations = rt.attempt + 1
          /\ Len(rt.onRetry) = rt.attempt
          /\ Len(rt.sleeps) = rt.attempt

C6_Witness ==
    /\ rt.state = "threw"
    /\ ~isRetryableError(rt.thrown)
    /\ rt.attempt = 1
    /\ rt.maxRetries = DefaultMaxRetries

\* C7: in the calls of one batch no OpenRouter call comes after a Gemini
\* call, and a Gemini call is there only if OpenRouter was not called at all
\* or its last call failed and withRetry gave up on it (the error is kept in
\* openRouterError and is non-retryable or came from the last attempt).
C7_PrimaryBeforeSecondary ==
    \A k \in 1..Len(runs) :
        LET r == runs[k]
            primary == ProviderCalls(r, "OpenRouter")
            secondary == ProviderCalls(r, "Gemini")
        IN /\ \A a \in secondary, b \in primary : b < a
           /\ (secondary # {} /\ primary # {}) =>
                 LET last == r.calls[Cardinality(primary)] IN
                 /\ last.outcome = "error"
                 /\ r.openRouterError # NoError
                 /\ \/ ~isRetryableError(r.openRouterError)
                    \/ last.attempt = ChunkMaxRetries
           /\ (secondary # {} /\ primary = {}) => r.openRouterError = NoError

C7_Witness ==
    \E k \in 1..Len(runs) :
        /\ Cardinality(ProviderCalls(runs[k], "OpenRouter")) = 4
        /\ Cardinality(ProviderCalls(runs[k], "Gemini")) = 2

\* C8: a batch that found the primary provider uninitialized when it
\* started has no OpenRouter call, whatever happens afterwards: all its calls
\* go to Gemini.
C8_UninitializedPrimarySkipped ==
    \A k \in 1..Len(runs) :
        ~runs[k].primaryChecked =>
            /\ ProviderCalls(runs[k], "OpenRouter") = {}
            /\ runs[k].stage = "Gemini"
            /\ runs[k].calls # <<>>

C8_Witness ==
    \E k \in 1..Len(runs) :
        /\ ~runs[k].primaryChecked
        /\ apiKey
        /\ Cardinality(ProviderCalls(runs[k], "Gemini")) = 3

\* C9: the results of a batch are exactly the records of the reply that
\* ended it, and a batch in which an OpenRouter call succeeded has no Gemini
\* call.
C9_SuccessShortCircuits ==
    \A k \in 1..Len(runs) :
        LET r == runs[k] IN
        /\ r.results = r.lastReply.records
        /\ (\E j \in ProviderCalls(r, "OpenRouter") : r.calls[j].outcome = "ok") =>
              /\ ProviderCalls(r, "Gemini") = {}
              /\ r.lastReply.provider = "OpenRouter"
              /\ r.status = "returned"

C9_Witness ==
    \E k \in 1..Len(runs) :
        /\ runs[k].status = "returned"
        /\ Len(runs[k].chunks) = 3
        /\ Len(runs[k].calls) = 3
        /\ runs[k].calls[3] = [provider |-> "OpenRouter", attempt |-> 2, outcome |-> "ok"]
        /\ runs[k].results # <<>>

\* C10: the error a run throws when Gemini has failed for good carries
\* Gemini's error message and, for OpenRouter, its error message when it was
\* called and the marker ('Skipped/Not Configured'; 'Skipped' in
\* analyzeDevModeChunk) when it was not; the marker is there only in the
\* second case.
C10_CombinedError ==
    \A k \in 1..Len(runs) :
        LET r == runs[k]
            marker == IF r.fn = "analyzeProcessesBatch" THEN "Skipped/Not Configured"
                      ELSE "Skipped"
        IN r.status = "threw" =>
            /\ r.stage = "Gemini"
            /\ r.retry.thrown # NoError
            /\ Contains(r.error.message, <<". Gemini: ">> \o getErrorMessage(r.retry.thrown))
            /\ IF ProviderCalls(r, "OpenRouter") # {}
               THEN /\ r.openRouterError # NoError
                    /\ Contains(r.error.message,
                                <<"OpenRouter: ">> \o getErrorMessage(r.openRouterError))
                    /\ ~Includes(r.error.message, marker)
               ELSE Contains(r.error.message, <<"OpenRouter: ", marker>>)

C10_Witness ==
    \E k \in 1..Len(runs) :
        /\ runs[k].fn = "analyzeProcessesBatch"
        /\ runs[k].status = "threw"
        /\ ProviderCalls(runs[k], "OpenRouter") # {}
        /\ Includes(runs[k].error.message, "400")
        /\ Includes(runs[k].error.message, "Failed to parse JSON response from Gemini")

\* the first n chunks, one after the other
RECURSIVE Flatten(_, _)
Flatten(chunks, n) == IF n = 0 THEN <<>> ELSE Flatten(chunks, n - 1) \o chunks[n]

\* the table a run writes to
TableOf(r) == IF IsDevMode(r.fn) THEN devCache ELSE cache

NamesOf(records) == [j \in 1..Len(records) |-> records[j].process_name]

\* the batches of r that have come back: all of them once r has returned
Done(r) == IF r.status = "returned" THEN r.i ELSE r.i - 1

\* C11: the batches of a run are processed in partition order, one at a
\* time.  A run at batch i holds the results of batches 1..i-1, in order, and
\* each of their records is in the cache table unless its write threw; the
\* run moves from batch i to batch i+1, and to no other batch, in the step in
\* which the call in flight for batch i resolves, and the first call for
\* batch i+1 (attempt 0) is made in that step, after the writes.
C11_BatchOrder ==
    /\ [](\A k \in 1..Len(runs) :
            LET r == runs[k] IN
            /\ r.i \in 1..Len(r.chunks)
            /\ NamesOf(r.allResults) =
                  [j \in 1..Len(Flatten(r.chunks, Done(r))) |-> Flatten(r.chunks, Done(r))[j].name]
            /\ \A j \in 1..Len(r.allResults) :
                  r.allResults[j].process_name \notin r.unsaved => r.allResults[j] \in TableOf(r))
    /\ [][ \A k \in 1..Len(runs) :
              (Pending(runs[k]) /\ k <= Len(runs') /\ runs'[k].i # runs[k].i) =>
                  /\ runs'[k].i = runs[k].i + 1
                  /\ runs[k].calls[Len(runs[k].calls)].outcome = "pending"
                  /\ runs'[k].lastReply.provider = runs[k].stage
                  /\ NamesOf(runs'[k].results) =
                        [j \in 1..Len(runs[k].chunks[runs[k].i]) |->
                            runs[k].chunks[runs[k].i][j].name]
                  /\ Len(runs'[k].calls) = 1
                  /\ runs'[k].calls[1].attempt = 0
                  /\ runs'[k].calls[1].outcome = "pending" ]_vars

C11_Witness ==
    \E k \in 1..Len(runs) :
        /\ Pending(runs[k])
        /\ runs[k].i = 3
        /\ Len(runs[k].calls) = 1
        /\ Len(runs[k].allResults) = 44
        /\ runs[k].unsaved # {}
        /\ Cardinality(cache) = 43

\* C12: a run whose batch j failed for good (Gemini's withRetry threw) has
\* thrown the error of that batch's orchestrator call; it stays at batch j
\* for ever (no call is made for a later batch), the step in which it throws
\* writes nothing, and no row is ever removed from a cache table, so the
\* records written for batches 1..j-1 are still there.
C12_FailureStopsRun ==
    /\ [](\A k \in 1..Len(runs) :
            LET r == runs[k] IN
            r.status = "threw" =>
                /\ r.retry.state = "threw"
                /\ r.error = Err(CombinedMessage(r.fn, r.openRouterError, r.retry.thrown))
                /\ r.calls[Len(r.calls)].outcome = "error"
                /\ NamesOf(r.allResults) =
                      [j \in 1..Len(Flatten(r.chunks, r.i - 1)) |->
                          Flatten(r.chunks, r.i - 1)[j].name]
                /\ \A j \in 1..Len(r.allResults) :
                      r.allResults[j].process_name \notin r.unsaved =>
                          r.allResults[j] \in TableOf(r))
    /\ [][ /\ \A k \in 1..Len(runs) :
                /\ (runs[k].status = "threw" /\ ~CallStep) =>
                        k <= Len(runs') /\ runs'[k] = runs[k]
                /\ (Pending(runs[k]) /\ k <= Len(runs') /\ runs'[k].status = "threw") =>
                        cache' = cache /\ devCache' = devCache
            /\ cache \subseteq cache'
            /\ devCache \subseteq devCache' ]_vars

C12_Witness ==
    \E k \in 1..Len(runs) :
        /\ runs[k].status = "threw"
        /\ Len(runs[k].chunks) = 3
        /\ runs[k].i = 2
        /\ runs[k].unsaved = {}
        /\ Cardinality(cache) = 22

\* C13: a write that throws is skipped and nothing else.  In the step in
\* which a batch comes back, every record of the batch whose own write did
\* not throw is in the cache table afterwards, the run goes on to the next
\* batch (or returns, after the last one) and never throws in that step; a
\* run that has returned holds one result per process of every batch,
\* whatever writes failed.
C13_WriteFailureSkipped ==
    /\ [](\A k \in 1..Len(runs) :
            runs[k].status = "returned" =>
                /\ runs[k].i = Len(runs[k].chunks)
                /\ Len(runs[k].allResults) = Len(Flatten(runs[k].chunks, Len(runs[k].chunks))))
    /\ [][ \A k \in 1..Len(runs) :
              (Pending(runs[k]) /\ k <= Len(runs') /\ runs'[k].allResults # runs[k].allResults) =>
                  LET r == runs'[k]
                      table == IF IsDevMode(r.fn) THEN devCache' ELSE cache'
                  IN /\ r.status # "threw"
                     /\ IF runs[k].i < Len(r.chunks)
                        THEN r.status = "pending" /\ r.i = runs[k].i + 1
                        ELSE r.status = "returned"
                     /\ runs[k].unsaved \subseteq r.unsaved
                     /\ Cardinality(r.unsaved \ runs[k].unsaved) <= 1
                     /\ \A j \in 1..Len(r.results) :
                           r.results[j].process_name \notin r.unsaved => r.results[j] \in table ]_vars

C13_Witness ==
    \E k \in 1..Len(runs) :
        /\ runs[k].status = "returned"
        /\ Len(runs[k].allResults) = 65
        /\ Cardinality(runs[k].unsaved) = 3
        /\ Cardinality(cache) = 62

\* the lower-cased names of a snapshot
LowerNames(processes) == { toLowerCase(processes[k].name) : k \in 1..Len(processes) }

\* the index of the first entry of a snapshot with a lower-cased name
FirstIndex(processes, lname) ==
    CHOOSE k \in 1..Len(processes) :
        /\ toLowerCase(processes[k].name) = lname
        /\ \A j \in 1..(k - 1) : toLowerCase(processes[j].name) # lname

\* C14: the output of deduplicateProcesses has exactly one entry for each
\* distinct lower-cased name of the input; that entry is the first input
\* entry with that name, with its own casing, cpu and mem; the output is in
\* order of first occurrence; the empty input gives the empty output.
C14_DeduplicateFirstOccurrence ==
    Len(pure.outputs) >= 1 =>
        LET input == pure.input
            output == pure.outputs[1]
        IN /\ Len(output) = Cardinality(LowerNames(input))
           /\ LowerNames(output) = LowerNames(input)
           /\ \A n \in 1..Len(output) :
                 output[n] = input[FirstIndex(input, toLowerCase(output[n].name))]
           /\ \A a, b \in 1..Len(output) :
                 a < b => FirstIndex(input, toLowerCase(output[a].name))
                            < FirstIndex(input, toLowerCase(output[b].name))
           /\ (input = <<>> => output = <<>>)

C14_Witness ==
    /\ pure.fn = "deduplicateProcesses"
    /\ pure.input = <<ProcessInfo(<<1, TRUE>>, 2), ProcessInfo(<<2, FALSE>>, 1),
                      ProcessInfo(<<1, FALSE>>, 1)>>
    /\ pure.outputs = << <<ProcessInfo(<<1, TRUE>>, 2), ProcessInfo(<<2, FALSE>>, 1)>> >>

\* C15: deduplicateProcesses applied to its own output returns that output,
\* and applied to a snapshot without two names equal up to case it returns
\* the snapshot: same entries, same order, same values.
C15_DeduplicateIdempotent ==
    /\ Len(pure.outputs) = 2 => pure.outputs[2] = pure.outputs[1]
    /\ (Len(pure.outputs) >= 1 /\ Cardinality(LowerNames(pure.input)) = Len(pure.input)) =>
          pure.outputs[1] = pure.input

C15_Witness ==
    /\ pure.fn = "deduplicateProcesses"
    /\ Len(pure.outputs) = 2
    /\ Len(pure.input) = 3
    /\ Len(pure.outputs[2]) = 2
    /\ pure.outputs[2][1].name = <<2, FALSE>>

\* how many times x is in a sequence
Count(seq, x) == Cardinality({ k \in 1..Len(seq) : seq[k] = x })

\* C16: for N > 0 entries createProcessBatches returns ceil(N / 32) groups
\* (the least q with 32 * q >= N) whose sizes differ by at most one and
\* which together hold every entry as many times as the input does; for the
\* empty input it returns the empty list.
C16_BatchesEvenAndComplete ==
    (pure.fn = "createProcessBatches" /\ pure.returned) =>
        LET input == pure.input
            output == pure.output
            N == Len(input)
            all == Flatten(output, Len(output))
        IN IF N = 0 THEN output = <<>>
           ELSE /\ TARGET_BATCH_SIZE * Len(output) >= N
                /\ TARGET_BATCH_SIZE * (Len(output) - 1) < N
                /\ \A a, b \in 1..Len(output) : Len(output[a]) - Len(output[b]) <= 1
                /\ Len(all) = N
                /\ \A k \in 1..N : Count(all, input[k]) = Count(input, input[k])

C16_Witness ==
    /\ pure.fn = "createProcessBatches"
    /\ pure.returned
    /\ Len(pure.input) = 65
    /\ pure.input[1] = pure.input[4]
    /\ Len(pure.output) = 3
    /\ Len(pure.output[1]) = 22
    /\ Len(pure.output[3]) = 21

ParsedState == pure.fn = "parseResponse" /\ pure.provider # "none"

\* the reply without its fence markers, and the part from its first "[" to
\* its last "]"
Unfenced == Trim(StripFences(pure.text))

NoBrackets ==
    \/ indexOf(Unfenced, "[") = 0
    \/ lastIndexOf(Unfenced, "]") = 0
    \/ indexOf(Unfenced, "[") >= lastIndexOf(Unfenced, "]")

Bracketed == SubSeq(Unfenced, indexOf(Unfenced, "["), lastIndexOf(Unfenced, "]"))

ParseOf(provider, text) ==
    IF provider = "OpenRouter" THEN OpenRouterParseResponse(text) ELSE GeminiParseResponse(text)

\* C17 as stated: the parser throws exactly when the text without fence
\* markers has no "[", no "]", its first "[" is not before its last "]", or
\* the part from the first "[" to the last "]" does not decode as JSON.
C17_ThrowsExactlyOnUndecodable ==
    ParsedState =>
        (~pure.result.ok <=> (NoBrackets \/ JSONparse(Bracketed) = SyntaxError))

\* C17, amended: the parser throws exactly when the text without fence
\* markers has no "[", no "]", its first "[" is not before its last "]", the
\* part from the first "[" to the last "]" does not decode as JSON, or the
\* decoded array has a null element; otherwise it returns one record per
\* element of that array and the text outside the brackets plays no part.
C17_ThrowsOnUndecodableOrNull ==
    ParsedState =>
        /\ ~pure.result.ok <=>
              \/ NoBrackets
              \/ JSONparse(Bracketed) = SyntaxError
              \/ \E j \in 1..Len(JSONparse(Bracketed).items) :
                    JSONparse(Bracketed).items[j] = JsonNull
        /\ pure.result.ok =>
              /\ Len(pure.result.records) = Len(JSONparse(Bracketed).items)
              /\ pure.result = ParseOf(pure.provider, Bracketed)
        /\ ~pure.result.ok =>
              pure.result.error =
                  IF NoBrackets THEN NoArrayError
                  ELSE IF pure.provider = "OpenRouter" THEN OpenRouterParseError
                  ELSE GeminiParseError

C17_Witness ==
    /\ ParsedState
    /\ pure.provider = "Gemini"
    /\ pure.text = <<"x", " ", "fence:json", " ", "[", "objA", ",", "null", "]",
                     " ", "fence", " ", "x">>
    /\ pure.result = ParseThrew(GeminiParseError)

\* C18: a reply that parses gives one record per decoded element, in the
\* order of the array, and the record of an object {n, r, d, k} has
\* process_name = n, risk_level = r, description = d and recommendation
\* 'Keep - Required for system' if k is true, 'Safe to terminate' if not; the
\* two providers' parsers return the same records for the same text.
C18_RecordsFromObjects ==
    ParsedState =>
        /\ pure.result.ok =>
              LET items == JSONparse(Bracketed).items IN
              /\ Len(pure.result.records) = Len(items)
              /\ \A j \in 1..Len(items) :
                    items[j].type = "object" =>
                        pure.result.records[j] =
                            [process_name |-> items[j].n, risk_level |-> items[j].r,
                             description |-> items[j].d,
                             recommendation |-> IF items[j].k = "true"
                                                THEN "Keep - Required for system"
                                                ELSE "Safe to terminate"]
        /\ pure.result.ok = OpenRouterParseResponse(pure.text).ok
        /\ pure.result.ok = GeminiParseResponse(pure.text).ok
        /\ pure.result.records = OpenRouterParseResponse(pure.text).records
        /\ pure.result.records = GeminiParseResponse(pure.text).records

C18_Witness ==
    /\ ParsedState
    /\ pure.provider = "OpenRouter"
    /\ pure.text = <<"x", " ", "fence:json", " ", "[", "objB", ",", "objA", "]",
                     " ", "fence", " ", "x">>
    /\ pure.result.ok
    /\ pure.result.records =
          << [process_name |-> "b.exe", risk_level |-> "Bloat", description |-> "y",
              recommendation |-> "Safe to terminate"],
             [process_name |-> "a.exe", risk_level |-> "Safe", description |-> "x",
              recommendation |-> "Keep - Required for system"] >>

\* C19: a refused request whose status is neither 429 nor 503 and whose
\* message does not contain 'overloaded' is not classified retryable and is
\* never retried (the operation is called once), whatever the status text
\* and the body contain.
C19_RetryableOnlyByStatus ==
    (/\ pure.fn = "analyze"
     /\ rt.lastError # NoError
     /\ pure.status \notin { "429", "503" }
     /\ ~Includes(getErrorMessage(rt.lastError), "overloaded")) =>
        /\ ~isRetryableError(rt.lastError)
        /\ rt.state = "threw"
        /\ rt.invocations = 1

\* a poll tick that gets to `await Promise.all([...])`
FetchStarts == PollTick /\ main'.fetching = main.fetching + 1

\* C20: a run in progress does not hold back the telemetry refresh.
\* Whenever the poll timer is set and the window is there, a tick starts a
\* call of fetchProcesses, run in progress or not; a call of fetchProcesses
\* in flight can always complete, and when it does it sends processes-update
\* with what the cache table holds at that moment and changes nothing of the
\* service.
C20_PollNotBlocked ==
    /\ []((main.monitorInterval /\ main.win /\ main.fetching < MaxFetches) => ENABLED FetchStarts)
    /\ [](main.fetching > 0 => ENABLED FetchResolves)
    /\ [][ (FetchResolves /\ main.win) =>
              /\ main'.update.sent
              /\ main'.update.analysis \in { EnrichedList(cache), EnrichedList(devCache) }
              /\ main'.update.analyzing = isAnalyzing
              /\ UNCHANGED svcVars ]_vars

C20_Witness ==
    /\ isAnalyzing
    /\ \E k \in PendingRuns : runs[k].retry.state = "sleep"
    /\ main.update.sent
    /\ main.update.analyzing
    /\ main.update.analysis # {}
    /\ main.fetching = 1

\* C21: whatever kill-process requests were made, process.kill was never
\* called with pid 0 or pid 4, and a request for pid 0 or pid 4 returned
\* {success: false} with an error message.
C21_ProtectedPidsNeverKilled ==
    main.fn = "kill-process" =>
        /\ 0 \notin main.killed
        /\ 4 \notin main.killed
        /\ main.reply.pid \in {0, 4} => (~main.reply.success /\ main.reply.error # "")

C21_Witness ==
    /\ main.fn = "kill-process"
    /\ main.reply.pid = 4
    /\ main.reply.error = ProtectedError
    /\ main.killed = {3, 5}

\* the events of a run on a channel
EventsOn(r, channel) == { j \in 1..Len(r.events) : r.events[j].channel = channel }

\* C22 as stated: a run that has completed all its batches has emitted the
\* completion event exactly once, as its last event, with count equal to the
\* number of records it returns; a run that has not returned has emitted none.
C22_CompletionExactlyOnce ==
    \A k \in 1..Len(runs) :
        LET r == runs[k]
            complete == EventsOn(r, "batch-analysis-complete")
        IN IF r.status = "returned"
           THEN /\ Cardinality(complete) = 1
                /\ r.events[Len(r.events)].channel = "batch-analysis-complete"
                /\ r.events[Len(r.events)].a = Len(r.allResults)
           ELSE complete = {}

\* C22, amended: a run emits the completion event only in the step in which
\* it returns, after the writes of its last batch, and it does so exactly
\* when its webContents is there and not destroyed at that moment; the event
\* is then the last of the run and its count is the number of records the run
\* returns.  A run that is pending or has thrown has emitted none, and no run
\* has emitted more than one.
C22_CompletionOnceIfAttached ==
    /\ [](\A k \in 1..Len(runs) :
            LET r == runs[k]
                complete == EventsOn(r, "batch-analysis-complete")
            IN /\ Cardinality(complete) <= 1
               /\ r.status # "returned" => complete = {}
               /\ complete # {} =>
                     /\ complete = { Len(r.events) }
                     /\ r.events[Len(r.events)].a = Len(r.allResults)
                     /\ r.i = Len(r.chunks)
                     /\ \A j \in 1..Len(r.results) :
                           r.results[j].process_name \notin r.unsaved =>
                               r.results[j] \in TableOf(r))
    /\ [][ \A k \in 1..Len(runs) :
              (Pending(runs[k]) /\ k <= Len(runs') /\ runs'[k].status = "returned") =>
                  (EventsOn(runs'[k], "batch-analysis-complete") # {} <=> webContents = "wc") ]_vars

C22_Witness ==
    \E k \in 1..Len(runs) :
        /\ runs[k].status = "returned"
        /\ Len(runs[k].chunks) = 3
        /\ webContents = "destroyed"
        /\ runs[k].unsaved # {}
        /\ Len(runs[k].events) > 0
        /\ runs[k].events[Len(runs[k].events)] = Ev("batch-analysis-complete", "", 65, 0, 0)

\* C23 (as stated): the progress event of a batch is emitted after the batch
\* came back and was persisted, so a run has as many progress events as
\* batches that completed, and the batch on which a run threw has none.
C23_ProgressAfterPersistence ==
    \A k \in 1..Len(runs) :
        LET r == runs[k]
            progress == EventsOn(r, "batch-analysis-progress")
        IN /\ Cardinality(progress) = Done(r)
           /\ r.status = "threw" =>
                 \A j \in progress : r.events[j].a # r.i

\* C23 (amended): the progress event of batch i is sent at the top of the
\* loop iteration, before the orchestrator call of batch i.  A run at batch i
\* has exactly i progress events, the j-th carrying (j, number of batches,
\* size of batch j), while only batches 1..i-1 have come back; a run that
\* threw at batch i has the progress event of batch i.
C23_ProgressBeforeCall ==
    \A k \in 1..Len(runs) :
        LET r == runs[k]
            progress == EventsOn(r, "batch-analysis-progress")
        IN /\ Cardinality(progress) = r.i
           /\ \A j \in 1..r.i :
                 \E e \in progress :
                    /\ r.events[e] = Ev("batch-analysis-progress", "", j,
                                        Len(r.chunks), Len(r.chunks[j]))
                    /\ Cardinality({ f \in progress : f < e }) = j - 1
           /\ r.status # "returned" =>
                 Len(r.allResults) = Len(Flatten(r.chunks, r.i - 1))

C23_Witness ==
    \E k \in 1..Len(runs) :
        /\ runs[k].status = "threw"
        /\ runs[k].i = 2
        /\ Len(runs[k].allResults) = 22
        /\ \E e \in EventsOn(runs[k], "batch-analysis-progress") :
              runs[k].events[e] = Ev("batch-analysis-progress", "", 2, 3, 22)

\* the table without the timestamps
Content(table) == { AnalysisResult(row.process_name, row.level) : row \in table }

\* C24: the table never holds two rows with one process name.  A
\* saveAnalysis throws only on a risk level outside the CHECK constraint,
\* never because the name is already stored; when it does not throw, the row
\* of that name is the saved record with the current timestamp (last write
\* wins) and the rows of other names are untouched; saving a record that is
\* already stored changes nothing but the timestamp.
C24_OneRecordPerName ==
    /\ \A name \in CacheNames : Cardinality(getAnalysis(cache, name)) <= 1
    /\ pure.data # NoData =>
          IF pure.threw
          THEN pure.data.level \notin RiskLevels /\ cache = pure.before
          ELSE /\ getAnalysis(cache, pure.data.process_name) = { Row(pure.data, pure.now) }
               /\ \A name \in CacheNames \ { pure.data.process_name } :
                     getAnalysis(cache, name) = getAnalysis(pure.before, name)
               /\ pure.data \in Content(pure.before) =>
                     Content(cache) = Content(pure.before)

C24_Witness ==
    /\ pure.data # NoData
    /\ ~pure.threw
    /\ Cardinality(cache) = 2
    /\ \E row \in pure.before :
          /\ row.process_name = pure.data.process_name
          /\ row.level # pure.data.level
          /\ row.last_updated < pure.now

\* the invocations of 'batch-analyze' that settle in a step
Settling(h) ==
    /\ main.handlers[h].state \in { "snapshot", "run" }
    /\ main'.handlers[h].state \notin { "snapshot", "run" }

\* C25: an invocation of the 'batch-analyze' handler never rejects.  It
\* resolves to {success: true, count} with a count of 0 or more, or to
\* {success: false, error} with a non-empty message.  The invocation that
\* awaits a run resolves in the step in which the run settles: with the
\* number of results of a run that returned, with the message of the
\* combined error of a run that threw.  An invocation whose call of
\* analyzeProcessesBatch throws Busy or not-initialized resolves with that
\* message.
C25_HandlerNeverRejects ==
    /\ [](\A h \in Handlers :
            LET handler == main.handlers[h] IN
            /\ handler.state # "rejected"
            /\ handler.state = "resolved" =>
                  IF handler.reply.success
                  THEN handler.reply.count >= 0 /\ handler.reply.error = <<>>
                  ELSE handler.reply.count = -1 /\ Len(handler.reply.error) > 0)
    /\ [][ \A h \in Handlers :
              Settling(h) =>
                 LET reply == main'.handlers[h].reply IN
                 /\ main'.handlers[h].state = "resolved"
                 /\ main.handlers[h].state = "run" =>
                       \E k \in PendingRuns :
                          IF runs'[k].status = "returned"
                          THEN reply = IpcSuccess(Len(runs'[k].allResults))
                          ELSE /\ runs'[k].status = "threw"
                               /\ reply = IpcFailure(runs'[k].error.message)
                               /\ reply.error[1] = "Both AI providers failed. "
                 /\ (main.handlers[h].state = "snapshot" /\ ~reply.success) =>
                       \/ reply.error = SnapshotError.message
                       \/ ~genAI /\ reply.error = NotInitializedError.message
                       \/ genAI /\ isProcessing /\ reply.error = BusyError.message ]_vars

C25_Witness ==
    \E h, g \in Handlers :
        /\ main.handlers[h] = Resolved(IpcFailure(BusyError.message))
        /\ main.handlers[g].state = "resolved"
        /\ ~main.handlers[g].reply.success
        /\ main.handlers[g].reply.error[1] = "Both AI providers failed. "

\* C26: withRetry has slept once per onRetry call, never more than
\* maxRetries times; the j-th sleep lasts baseDelay * 3^(j-1) (1000, 3000,
\* 9000 ms with the default base) and the j-th onRetry call carries attempt
\* number j and the error of the j-th failed attempt.  onRetry is called in
\* the step in which an attempt fails and the wait begins, and in no other:
\* not when the first attempt starts, and not when withRetry throws.
C26_BackoffSchedule ==
    /\ [](/\ Len(rt.sleeps) = Len(rt.onRetry)
          /\ Len(rt.onRetry) <= rt.maxRetries
          /\ Len(rt.onRetry) = IF rt.state = "sleep" THEN rt.invocations
                               ELSE rt.invocations - 1
          /\ \A j \in 1..Len(rt.onRetry) :
                /\ rt.sleeps[j] = rt.baseDelay * 3^(j - 1)
                /\ rt.onRetry[j].attempt = j
                /\ (rt.baseDelay = 1000 /\ j <= 3) => rt.sleeps[j] = <<1000, 3000, 9000>>[j]
          /\ rt.state = "sleep" => rt.onRetry[Len(rt.onRetry)].error = rt.lastError)
    /\ [][ /\ (rt'.onRetry # rt.onRetry \/ rt'.sleeps # rt.sleeps) =>
                /\ rt.state = "operation" /\ rt'.state = "sleep"
                /\ rt'.onRetry = Append(rt.onRetry, [attempt |-> rt.attempt + 1,
                                                     error |-> rt'.lastError])
                /\ rt'.sleeps = Append(rt.sleeps, rt.baseDelay * 3^rt.attempt)
           /\ (rt.state = "operation" /\ rt'.state = "threw") => rt'.onRetry = rt.onRetry
         ]_vars

C26_Witness ==
    /\ rt.state = "threw"
    /\ rt.maxRetries = DefaultMaxRetries
    /\ rt.sleeps = <<1000, 3000, 9000>>
    /\ Len(rt.onRetry) = 3
    /\ rt.invocations = 4

BatchesReturned == pure.fn = "createProcessBatches" /\ pure.returned

\* C27: with numBatches = ceil(N / 32), the entry at 0-based index x of the
\* input is in group x mod numBatches, after the entries of smaller index
\* with the same remainder and before those of larger index; with more than
\* one group the first group is not the head of the input.
C27_RoundRobin ==
    (BatchesReturned /\ Len(pure.input) > 0) =>
        LET input == pure.input
            output == pure.output
            N == Len(input)
            numBatches == (N + TARGET_BATCH_SIZE - 1) \div TARGET_BATCH_SIZE
        IN /\ Len(output) = numBatches
           /\ \A x \in 0..(N - 1) :
                 LET group == output[(x % numBatches) + 1]
                     before == { y \in 0..(x - 1) : y % numBatches = x % numBatches }
                 IN /\ Cardinality(before) < Len(group)
                    /\ group[Cardinality(before) + 1] = input[x + 1]
           /\ (numBatches > 1 /\ input[2] # input[numBatches + 1]) =>
                 output[1] # SubSeq(input, 1, Len(output[1]))

C27_Witness ==
    /\ BatchesReturned
    /\ Len(pure.input) = 65
    /\ pure.input[2] # pure.input[4]
    /\ pure.output[1][2] = pure.input[4]
    /\ pure.output[2][1] = pure.input[2]
    /\ pure.output[3][21] = pure.input[63]

\* C28: for N >= 1 createProcessBatches returns at least one group, and
\* every group has at least 1 and at most TARGET_BATCH_SIZE entries.
C28_BatchesBounded ==
    (BatchesReturned /\ Len(pure.input) >= 1) =>
        /\ Len(pure.output) >= 1
        /\ \A b \in 1..Len(pure.output) :
              /\ Len(pure.output[b]) >= 1
              /\ Len(pure.output[b]) <= 32

C28_Witness ==
    /\ BatchesReturned
    /\ Len(pure.input) = 64
    /\ Len(pure.output) = 2
    /\ Len(pure.output[1]) = 32
    /\ Len(pure.output[2]) = 32

\* the errors parseResponse throws
ParseErrors == { NoArrayError, OpenRouterParseError, GeminiParseError }

RetryEvents(r, provider) ==
    { j \in 1..Len(r.batchEvents) :
        /\ r.batchEvents[j].channel = "batch-analysis-retry"
        /\ r.batchEvents[j].tag = provider }

\* OpenRouter's withRetry of the current batch threw a parse error
PrimaryUnparsable(r) == r.openRouterError \in ParseErrors

\* Gemini's withRetry of the current batch threw a parse error
SecondaryUnparsable(r) ==
    r.stage = "Gemini" /\ r.retry.state = "threw" /\ r.retry.thrown \in ParseErrors

\* C29 (as stated): a provider whose reply failed to parse was called
\* exactly once for that batch and has no retry event, and after the
\* primary's parse failure the next call is the secondary's first.
C29_ParseFailureCalledOnce ==
    \A k \in 1..Len(runs) :
        LET r == runs[k] IN
        /\ PrimaryUnparsable(r) =>
              /\ Cardinality(ProviderCalls(r, "OpenRouter")) = 1
              /\ RetryEvents(r, "OpenRouter") = {}
              /\ Len(r.calls) >= 2 /\ r.calls[2].provider = "Gemini"
        /\ SecondaryUnparsable(r) =>
              /\ Cardinality(ProviderCalls(r, "Gemini")) = 1
              /\ RetryEvents(r, "Gemini") = {}

\* C29 (amended): a parse failure ends the withRetry of its provider at
\* once: the withRetry in flight never sleeps or calls again after one, and
\* no onRetry call carries one.  The provider has been called once for each
\* earlier retryable failure and once more, with one retry event for each of
\* the earlier failures and none for the parse failure.  After the primary's
\* parse failure the next call of the batch is the secondary's first; after
\* the secondary's the run has thrown.
C29_ParseFailureNotRetried ==
    \A k \in 1..Len(runs) :
        LET r == runs[k]
            primary == Cardinality(ProviderCalls(r, "OpenRouter"))
            secondary == Cardinality(ProviderCalls(r, "Gemini"))
        IN /\ r.retry.lastError \in ParseErrors => r.retry.state = "threw"
           /\ \A j \in 1..Len(r.retry.onRetry) : r.retry.onRetry[j].error \notin ParseErrors
           /\ PrimaryUnparsable(r) =>
                 /\ primary >= 1
                 /\ Cardinality(RetryEvents(r, "OpenRouter")) = primary - 1
                 /\ \A j \in 1..primary : r.calls[j].provider = "OpenRouter"
                 /\ Len(r.calls) > primary
                 /\ r.calls[primary + 1].provider = "Gemini"
                 /\ r.calls[primary + 1].attempt = 0
           /\ SecondaryUnparsable(r) =>
                 /\ r.status = "threw"
                 /\ Cardinality(RetryEvents(r, "Gemini")) = secondary - 1
                 /\ r.calls[Len(r.calls)] = [Call("Gemini", secondary - 1) EXCEPT !.outcome = "error"]

C29_Witness ==
    \E k \in 1..Len(runs) :
        /\ Pending(runs[k])
        /\ runs[k].openRouterError = NoArrayError
        /\ Cardinality(ProviderCalls(runs[k], "OpenRouter")) = 2
        /\ Cardinality(RetryEvents(runs[k], "OpenRouter")) = 1
        /\ Len(runs[k].calls) = 3
        /\ runs[k].calls[3] = Call("Gemini", 0)

\* the provider calls that have not settled: <<run, index in its calls>>
InFlight ==
    UNION { { <<k, j>> : j \in { c \in 1..Len(runs[k].calls) :
                                   runs[k].calls[c].outcome = "pending" } } :
            k \in 1..Len(runs) }

\* C30: at most one provider call is in flight.  It is the latest call of
\* the pending run, whose withRetry is awaiting its operation; a run that
\* sleeps or has settled has none.  A call with attempt number above 0 is
\* made only by the step that ends the backoff wait, after the previous
\* attempt of the same provider failed; the first call of a provider or of
\* a batch is made only when no call is left in flight.
C30_OneCallInFlight ==
    /\ [](/\ Cardinality(InFlight) <= 1
          /\ \A c \in InFlight :
                /\ Pending(runs[c[1]])
                /\ c[2] = Len(runs[c[1]].calls)
                /\ runs[c[1]].retry.state = "operation"
          /\ \A k \in 1..Len(runs) :
                (Pending(runs[k]) /\ runs[k].retry.state = "operation") =>
                    <<k, Len(runs[k].calls)>> \in InFlight)
    /\ [][ \A k \in 1..Len(runs) :
              (Pending(runs[k]) /\ k <= Len(runs') /\ runs'[k].calls # runs[k].calls
                 /\ <<k, Len(runs'[k].calls)>> \in InFlight') =>
                 LET before == runs[k].calls
                     new == runs'[k].calls[Len(runs'[k].calls)]
                 IN IF new.attempt > 0
                    THEN /\ runs[k].retry.state = "sleep"
                         /\ InFlight = {}
                         /\ before[Len(before)].outcome = "error"
                         /\ before[Len(before)].provider = new.provider
                         /\ new.attempt = before[Len(before)].attempt + 1
                         /\ runs'[k].calls = Append(before, new)
                         /\ runs'[k].i = runs[k].i
                    ELSE /\ InFlight = { <<k, Len(before)>> }
                         /\ InFlight' = { <<k, Len(runs'[k].calls)>> } ]_vars

C30_Witness ==
    \E k \in 1..Len(runs) :
        /\ Pending(runs[k])
        /\ runs[k].i = 2
        /\ Len(runs[k].calls) = 5
        /\ runs[k].calls[2] = [Call("OpenRouter", 1) EXCEPT !.outcome = "error"]
        /\ runs[k].calls[5] = Call("Gemini", 2)
        /\ InFlight = { <<k, 5>> }

\* C31: a batch takes at most maxRetries + 1 calls of each provider, so at
\* most 2 * (maxRetries + 1) = 8 calls; a run visits its batches in
\* increasing order, each once, so it makes at most 8 calls for each of its
\* B batches; and when every provider call settles and every backoff timer
\* fires, a set running flag is cleared again.
C31_RunTerminates ==
    /\ [](\A k \in 1..Len(runs) :
            LET r == runs[k] IN
            /\ r.i <= Len(r.chunks)
            /\ Cardinality(ProviderCalls(r, "OpenRouter")) <= ChunkMaxRetries + 1
            /\ Cardinality(ProviderCalls(r, "Gemini")) <= ChunkMaxRetries + 1
            /\ Len(r.calls) <= 8
            /\ Pending(r) <=> (isProcessing /\ k = Len(runs)))
    /\ [][ \A k \in 1..Len(runs) :
              (Pending(runs[k]) /\ k <= Len(runs') /\ runs'[k].calls # runs[k].calls) =>
                 \/ /\ runs'[k].i = runs[k].i
                    /\ Len(runs'[k].calls) <= Len(runs[k].calls) + 1
                 \/ /\ runs'[k].i = runs[k].i + 1
                    /\ Len(runs'[k].calls) = 1 ]_vars
    /\ (isProcessing ~> ~isProcessing)

C31_Witness ==
    \E k \in 1..Len(runs) :
        /\ runs[k].status = "threw"
        /\ ~isProcessing
        /\ runs[k].i = 3
        /\ Len(runs[k].calls) = 8

\* the entries of the snapshot without a row under their name
Uncached == { j \in 1..Len(ProcessList) : getAnalysis(cache, ProcessList[j].name) = {} }

\* an invocation of 'batch-analyze' goes on after si.processes() resolved
SnapshotTaken(h) ==
    /\ main.handlers[h].state = "snapshot"
    /\ main'.handlers[h].state # "snapshot"
    /\ main'.handlers[h].reply # IpcFailure(SnapshotError.message)

\* C32: when the snapshot of an invocation of 'batch-analyze' has no entry
\* without a cache row, the invocation resolves to success with count 0 and
\* the step makes no call of analyzeProcessesBatch: no run, no change of the
\* running flag, no provider call, no cache write.  Otherwise
\* analyzeProcessesBatch is called, and a run it starts holds only entries
\* of the snapshot whose name had no row, and one for each such name.
C32_OnlyUncachedSubmitted ==
    [][ \A h \in Handlers :
          SnapshotTaken(h) =>
             IF Uncached = {}
             THEN /\ main'.handlers[h] = Resolved(IpcSuccess(0))
                  /\ runs' = runs
                  /\ isProcessing' = isProcessing
                  /\ lastSync' = lastSync
                  /\ cache' = cache
             ELSE /\ main'.handlers[h] # Resolved(IpcSuccess(0))
                  /\ lastSync' # NoCall \/ runs' # runs
                  /\ runs' # runs =>
                        LET r == runs'[Len(runs')]
                            submitted == Flatten(r.chunks, Len(r.chunks))
                        IN /\ main'.handlers[h].state = "run"
                           /\ \A j \in 1..Len(submitted) :
                                 /\ getAnalysis(cache, submitted[j].name) = {}
                                 /\ \E u \in Uncached : ProcessList[u] = submitted[j]
                           /\ \A u \in Uncached : \E j \in 1..Len(submitted) :
                                 toLowerCase(submitted[j].name) = toLowerCase(ProcessList[u].name)
      ]_vars

C32_Witness ==
    /\ Uncached = {}
    /\ ~isProcessing
    /\ \E h \in Handlers : main.handlers[h] = Resolved(IpcSuccess(0))
    /\ \E h \in Handlers : main.handlers[h] = Resolved(IpcSuccess(1))


----------------------------------------------------------------------------
(* The empty input *)

EmptyCalls ==
    { <<"analyzeProcessesBatch", <<>>>>, <<"analyzeDevModeBatch", <<>>>> }

ReturnedEmpty ==
    /\ lastSync' = Settled("returned", NoError)
    /\ runs' = runs
    /\ isProcessing' = isProcessing
    /\ cache' = cache
    /\ devCache' = devCache
    /\ webContents' = webContents

----------------------------------------------------------------------------
(* Initialization of the providers *)

\* the errors a run has met in its withRetry in flight
ErrorsMet(r) ==
    { r.retry.lastError, r.retry.thrown } \cup { r.retry.onRetry[j].error : j \in 1..Len(r.retry.onRetry) }

\* C34: no step turns an initialized provider into an uninitialized one
\* (initGemini and initOpenRouter return at once on an empty key), so while a
\* run is pending the Gemini provider is initialized and no call of it fails
\* with 'Gemini API not initialized'.
C34_InitializationMonotonic ==
    /\ [](\A k \in 1..Len(runs) :
            /\ Pending(runs[k]) => genAI
            /\ GeminiNotInitialized \notin ErrorsMet(runs[k]))
    /\ [][ (genAI => genAI') /\ (apiKey => apiKey') ]_vars

C34_Witness ==
    /\ genAI
    /\ lastSync = NoCall
    /\ \E k \in 1..Len(runs) :
          /\ Pending(runs[k])
          /\ runs[k].stage = "Gemini"
          /\ Len(runs[k].retry.onRetry) > 0
          /\ Len(runs[k].calls) > 1


----------------------------------------------------------------------------
(* Runs over snapshots that list every name twice, in lower and upper case *)

CaseAnalyze == \E processes \in CaseInputs : Analyze("analyzeProcessesBatch", processes)

CaseNext ==
    \/ \E key \in Keys : InitGemini(key, "wc")
    \/ \E key \in Keys : InitOpenRouter(key)
    \/ CaseAnalyze
    \/ ProviderResolves
    \/ ProviderRejects
    \/ BackoffElapsed

CaseSpec == Init /\ [][CaseNext]_vars

NormalizedNames(processes) == { toLowerCase(processes[j].name) : j \in 1..Len(processes) }

\* C35: the batches of a run hold pairwise different names under
\* case-insensitive comparison, within a batch and across batches, and every
\* name of the snapshot is in one of them.
C35_NamesOncePerRun ==
    \A k \in 1..Len(runs) :
        LET submitted == Flatten(runs[k].chunks, Len(runs[k].chunks)) IN
        /\ \A i, j \in 1..Len(submitted) :
              i # j => toLowerCase(submitted[i].name) # toLowerCase(submitted[j].name)
        /\ \E processes \in CaseInputs :
              /\ NormalizedNames(processes) = NormalizedNames(submitted)
              /\ \A j \in 1..Len(submitted) : \E i \in 1..Len(processes) : processes[i] = submitted[j]

C35_Witness ==
    \E k \in 1..Len(runs) :
        /\ runs[k].status = "returned"
        /\ Len(runs[k].chunks) = 2
        /\ runs[k].i = 2
        /\ Len(runs[k].allResults) = TARGET_BATCH_SIZE + 1
        /\ runs[k].chunks[2][1].name = <<2, TRUE>>
        /\ runs[k].chunks[1][1].name = <<1, FALSE>>


----------------------------------------------------------------------------
(* Two invocations that have both passed `if (isAnalyzing())` and await    *)
(* si.processes(): each is 'batch-analyze' or 'batch-analyze-devmode'.      *)

HandlerFns == { "batch-analyze", "batch-analyze-devmode" }

\* `processes.list.filter((p: any) => !getDevModeAnalysis(p.name))`
needDevModeAnalysis(list) == SelectSeq(list, LAMBDA p : getAnalysis(devCache, p.name) = {})

\* 'batch-analyze': si.processes() resolves
NormalSnapshotResolves(h) == main.fn[h] = "batch-analyze" /\ SnapshotResolves(h)

\* 'batch-analyze-devmode': si.processes() resolves, the handler goes on to
\* `await Promise.all([..., powerShellService?.getPrivateMemoryStats() ...])`
DevSnapshotResolves(h) ==
    /\ main.fn[h] = "batch-analyze-devmode"
    /\ main.handlers[h].state = "snapshot"
    /\ main' = [main EXCEPT !.handlers[h].state = "stats"]
    /\ UNCHANGED <<svcVars, rt, pure>>

\* getPrivateMemoryStats() resolves (it catches its own errors): the handler
\* from the filter up to `await analyzeDevModeBatch(processInfo)`, or to its return
DevStatsResolve(h) ==
    /\ main.handlers[h].state = "stats"
    /\ IF Len(needDevModeAnalysis(ProcessList)) = 0
       THEN /\ main' = [main EXCEPT !.handlers[h] = Resolved(IpcSuccess(0))]
            /\ UNCHANGED svcVars
            /\ UNCHANGED <<rt, pure>>
       ELSE /\ AnalyzeCall("analyzeDevModeBatch", needDevModeAnalysis(ProcessList))
            /\ main' = [main EXCEPT !.handlers[h] =
                            IF lastSync'.status = "threw" THEN BatchAnalyzeCatch(lastSync'.error)
                            ELSE IF lastSync'.status = "returned" THEN Resolved(IpcSuccess(0))
                            ELSE [state |-> "run", reply |-> NoIpcReply]]

OverlapInit ==
    /\ \E geminiApiKey \in Keys :
          /\ genAI = (geminiApiKey # "")
          /\ webContents = IF geminiApiKey # "" THEN "wc" ELSE "null"
    /\ \E openRouterApiKey \in Keys : apiKey = (openRouterApiKey # "")
    /\ isProcessing = FALSE
    /\ runs = <<>>
    /\ lastSync = NoCall
    /\ cache = {}
    /\ devCache = {}
    /\ rt = WithRetryStart(DefaultMaxRetries, DefaultBaseDelay)
    /\ pure = NoApplication
    /\ \E fns \in [Handlers -> HandlerFns] :
          main = [fn |-> fns,
                  handlers |-> [h \in Handlers |-> [state |-> "snapshot", reply |-> NoIpcReply]]]

OverlapNext ==
    \/ \E key \in Keys : InitGemini(key, "wc")
    \/ \E key \in Keys : InitOpenRouter(key)
    \/ \E h \in Handlers : NormalSnapshotResolves(h)
    \/ \E h \in Handlers : DevSnapshotResolves(h)
    \/ \E h \in Handlers : DevStatsResolve(h)
    \/ \E h \in Handlers : SnapshotRejects(h)
    \/ IpcProviderResolves
    \/ IpcProviderRejects
    \/ IpcBackoffElapsed

OverlapSpec == OverlapInit /\ [][OverlapNext]_vars

\* replies that do not come out of a run of the invocation's own
NoRunReplies ==
    { NoIpcReply, IpcSuccess(0), IpcFailure(BusyError.message),
      IpcFailure(NotInitializedError.message), IpcFailure(SnapshotError.message) }

\* invocation h has started a run
Started(h) ==
    \/ main.handlers[h].state = "run"
    \/ main.handlers[h].state = "resolved" /\ main.handlers[h].reply \notin NoRunReplies

\* C36 as stated: of two invocations that both passed the isAnalyzing() check
\* before either started a run, at most one ever starts a run.
C36_AtMostOneStartsRun == Cardinality({ h \in Handlers : Started(h) }) <= 1

\* invocation h is about to call analyzeProcessesBatch / analyzeDevModeBatch
\* with a non-empty list
AboutToCall(h) ==
    IF main.fn[h] = "batch-analyze"
    THEN main.handlers[h].state = "snapshot" /\ Len(needAnalysis(ProcessList)) > 0
    ELSE main.handlers[h].state = "stats" /\ Len(needDevModeAnalysis(ProcessList)) > 0

\* C36: at most one run is in progress at a time and at most one invocation
\* awaits a run; an invocation whose call reaches the coordinator while the
\* other's run is in progress resolves with { success: false } and the Busy
\* message, and that step leaves the run, both caches and the flag as they are.
C36_OneRunAtATime ==
    /\ [](/\ Cardinality({ k \in 1..Len(runs) : Pending(runs[k]) }) <= 1
          /\ Cardinality({ h \in Handlers : main.handlers[h].state = "run" }) <= 1
          /\ isProcessing <=> \E k \in 1..Len(runs) : Pending(runs[k]))
    /\ [][ \A h \in Handlers :
             ( /\ AboutToCall(h)
               /\ isProcessing
               /\ main'.handlers[h] # main.handlers[h]
               /\ main'.handlers[h].reply # IpcFailure(SnapshotError.message) ) =>
                  /\ main'.handlers[h] = Resolved(IpcFailure(BusyError.message))
                  /\ \A o \in Handlers \ { h } : main'.handlers[o] = main.handlers[o]
                  /\ runs' = runs
                  /\ cache' = cache
                  /\ devCache' = devCache
                  /\ isProcessing' ]_vars

C36_Witness ==
    /\ main.fn[1] # main.fn[2]
    /\ main.handlers[1] = Resolved(IpcFailure(BusyError.message))
    /\ main.handlers[2].state = "run"
    /\ \E k \in 1..Len(runs) : Pending(runs[k]) /\ Len(runs[k].calls) > 1


----------------------------------------------------------------------------
(* 'batch-analyze' again on the same snapshot *)

\* an invocation has resolved with the records of a run, all of them written
SucceededOnce ==
    /\ ~isProcessing
    /\ \E h \in Handlers :
          /\ main.handlers[h].state = "resolved"
          /\ main.handlers[h].reply.success
          /\ main.handlers[h].reply.count > 0
    /\ Len(runs) > 0
    /\ \A k \in 1..Len(runs) : runs[k].status = "returned" /\ runs[k].unsaved = {}

\* C37: once a 'batch-analyze' has succeeded with every record written, every
\* process of the snapshot has a row in the cache, so the filter of the next
\* 'batch-analyze' leaves nothing to submit.
C37_SnapshotCachedAfterSuccess == SucceededOnce => Uncached = {}


----------------------------------------------------------------------------
(* PowerShellService (part_009): the child process, its exit and error     *)
(* events, the restart timer and cleanup().  A child is known by the number *)
(* of the spawn() that made it; process = 0 stands for null.                *)

MaxSpawns == 5

Children == 1..MaxSpawns

SpawnOutcomes == { "spawned", "threw" }

\* restart(): nothing while isRestarting, else the flag and the 2-second timer
restart(s) ==
    IF s.isRestarting THEN s
    ELSE [s EXCEPT !.isRestarting = TRUE, !.timer = TRUE]

\* init(): spawn() and the listeners, or the catch block when spawn() throws
init(s, outcome) ==
    IF outcome = "threw" THEN restart(s)
    ELSE [s EXCEPT !.process = s.spawns + 1,
                   !.spawns = s.spawns + 1,
                   !.child[s.spawns + 1] = "running"]

\* the listeners of 'exit' and 'error': `this.process = null` and restart()
\* unless isRestarting
onExit(s) ==
    LET s1 == [s EXCEPT !.process = 0] IN
    IF ~s1.isRestarting THEN restart(s1) ELSE s1

\* cleanup(): with a process at hand, the flag, kill() and null
cleanup(s) ==
    IF s.process # 0
    THEN [s EXCEPT !.isRestarting = TRUE, !.child[s.process] = "killed", !.process = 0]
    ELSE s

NoService ==
    [fn |-> "PowerShellService", process |-> 0, isRestarting |-> FALSE, timer |-> FALSE,
     spawns |-> 0, child |-> [c \in Children |-> "none"], cleaned |-> FALSE]

\* the child exits, by itself or after kill()
ChildExits(c) ==
    /\ main.child[c] \in { "running", "killed" }
    /\ main' = onExit([main EXCEPT !.child[c] = "exited"])
    /\ UNCHANGED <<svcVars, rt, pure>>

\* the child could not be started: 'error' is emitted and no 'exit' follows
ChildErrors(c) ==
    /\ main.child[c] = "running"
    /\ main' = onExit([main EXCEPT !.child[c] = "failed"])
    /\ UNCHANGED <<svcVars, rt, pure>>

\* the callback of setTimeout(..., 2000) in restart()
RestartTimerFires ==
    /\ main.timer
    /\ main.spawns < MaxSpawns
    /\ \E outcome \in SpawnOutcomes :
          main' = init([main EXCEPT !.timer = FALSE, !.isRestarting = FALSE], outcome)
    /\ UNCHANGED <<svcVars, rt, pure>>

\* powerShellService?.cleanup() on 'window-all-closed' and on 'before-quit'
CleanupCalled ==
    /\ main' = [cleanup(main) EXCEPT !.cleaned = TRUE]
    /\ UNCHANGED <<svcVars, rt, pure>>

\* new PowerShellService()
PowerShellInit ==
    /\ genAI = FALSE
    /\ apiKey = FALSE
    /\ webContents = "null"
    /\ isProcessing = FALSE
    /\ runs = <<>>
    /\ lastSync = NoCall
    /\ cache = {}
    /\ devCache = {}
    /\ rt = WithRetryStart(DefaultMaxRetries, DefaultBaseDelay)
    /\ pure = NoApplication
    /\ \E outcome \in SpawnOutcomes : main = init(NoService, outcome)

PowerShellNext ==
    \/ \E c \in Children : ChildExits(c)
    \/ \E c \in Children : ChildErrors(c)
    \/ RestartTimerFires
    \/ CleanupCalled

PowerShellSpec == PowerShellInit /\ [][PowerShellNext]_vars

\* C38: once cleanup() has been called no PowerShell process is spawned,
\* whether cleanup() killed a live process or found a restart timer pending.
C38_NoSpawnAfterCleanup == [][ main.cleaned => main'.spawns = main.spawns ]_vars


----------------------------------------------------------------------------
(* PowerShellService.getPrivateMemoryStats (part_009) with a live child.   *)
(* PowerShell answers the commands on its stdin in order; the answer to a   *)
(* command reaches the 'data' listener in two pieces, the first opening the *)
(* JSON array and the second closing it.                                    *)

MaxCalls == 2

Calls == 1..MaxCalls

\* the text PowerShell prints for the command written by call c
Output(c) == << <<c, "[">>, <<c, "]">> >>

\* `this.responseBuffer.match(/[\]\}]\s*$/)`
hasCompleteJson(buffer) == Len(buffer) > 0 /\ buffer[Len(buffer)][2] = "]"

\* JSON.parse(response) and the filter: the records of one whole array, or
\* the catch block's `return []`
ParseStats(response) ==
    IF \E d \in Calls : response = Output(d)
    THEN [kind |-> "stats", of |-> (CHOOSE d \in Calls : response = Output(d))]
    ELSE [kind |-> "empty", of |-> 0]

IdleCall == [state |-> "idle", response |-> <<>>, result |-> [kind |-> "none", of |-> 0]]

\* getPrivateMemoryStats() up to `await this.waitForResponse(5000)`
GetPrivateMemoryStats(c) ==
    /\ main.calls[c].state = "idle"
    /\ main' = [main EXCEPT !.responseBuffer = <<>>,
                            !.stdin = Append(@, c),
                            !.calls[c].state = "waiting"]
    /\ UNCHANGED <<svcVars, rt, pure>>

\* PowerShell prints the next piece of its answer to the first command
\* pending: stdout 'data' appends it to responseBuffer
StdoutData ==
    /\ Len(main.stdin) > 0
    /\ LET c == main.stdin[1] IN
       main' = [main EXCEPT !.responseBuffer = Append(@, Output(c)[main.emitted + 1]),
                            !.emitted = IF @ + 1 = Len(Output(c)) THEN 0 ELSE @ + 1,
                            !.stdin = IF main.emitted + 1 = Len(Output(c)) THEN Tail(@) ELSE @]
    /\ UNCHANGED <<svcVars, rt, pure>>

\* the 50 ms interval of call c finds a complete answer: resolve, and the rest
\* of getPrivateMemoryStats
CheckInterval(c) ==
    /\ main.calls[c].state = "waiting"
    /\ hasCompleteJson(main.responseBuffer)
    /\ main' = [main EXCEPT !.responseBuffer = <<>>,
                            !.calls[c] = [state |-> "resolved",
                                          response |-> main.responseBuffer,
                                          result |-> ParseStats(main.responseBuffer)]]
    /\ UNCHANGED <<svcVars, rt, pure>>

\* the interval of call c finds no complete answer after 5000 ms: reject, and
\* the catch block returns []
ResponseTimeout(c) ==
    /\ main.calls[c].state = "waiting"
    /\ ~hasCompleteJson(main.responseBuffer)
    /\ main' = [main EXCEPT !.calls[c] = [state |-> "resolved", response |-> <<>>,
                                          result |-> [kind |-> "empty", of |-> 0]]]
    /\ UNCHANGED <<svcVars, rt, pure>>

StatsInit ==
    /\ genAI = FALSE
    /\ apiKey = FALSE
    /\ webContents = "null"
    /\ isProcessing = FALSE
    /\ runs = <<>>
    /\ lastSync = NoCall
    /\ cache = {}
    /\ devCache = {}
    /\ rt = WithRetryStart(DefaultMaxRetries, DefaultBaseDelay)
    /\ pure = NoApplication
    /\ main = [fn |-> "getPrivateMemoryStats", responseBuffer |-> <<>>, stdin |-> <<>>,
               emitted |-> 0, calls |-> [c \in Calls |-> IdleCall]]

StatsNext ==
    \/ \E c \in Calls : GetPrivateMemoryStats(c)
    \/ StdoutData
    \/ \E c \in Calls : CheckInterval(c)
    \/ \E c \in Calls : ResponseTimeout(c)

StatsSpec == StatsInit /\ [][StatsNext]_vars

\* the pieces in responseBuffer that answer the command of a call still waiting
Owed(m) ==
    { j \in 1..Len(m.responseBuffer) : m.calls[m.responseBuffer[j][1]].state = "waiting" }

\* C39: a call of getPrivateMemoryStats that resolves with a response
\* resolves with the output of its own command, and as long as a call waits
\* no other call removes pieces of its output from responseBuffer.
C39_OwnResponse ==
    /\ [](\A c \in Calls :
            (main.calls[c].state = "resolved" /\ main.calls[c].response # <<>>) =>
                /\ main.calls[c].response = Output(c)
                /\ main.calls[c].result = [kind |-> "stats", of |-> c])
    /\ [][ \A j \in Owed(main) :
             main'.calls[main.responseBuffer[j][1]].state = "waiting" =>
                \E i \in 1..Len(main'.responseBuffer) :
                    main'.responseBuffer[i] = main.responseBuffer[j] ]_vars

====
